---- MODULE Spec2Model ----
(***************************************************************************)
(* State-machine model of the three services of the enclave egress         *)
(* pipeline:                                                               *)
(*   - the host tunnel relay   (src/src/host_proxy/tunnel.py),             *)
(*   - the enclave sidecar     (src/src/sidecar/main.py),                  *)
(*   - the host ingress proxy  (src/src/host_proxy/main.py).               *)
(* Every coroutine is modelled with one action per suspension point        *)
(* (await); the code between two awaits runs atomically, as it does under  *)
(* asyncio's cooperative scheduling.                                       *)
(***************************************************************************)
EXTENDS Integers, Sequences, FiniteSets, TLC

(***************************************************************************)
(* Bounds of the model.                                                    *)
(***************************************************************************)
\* Tunnel connections that can be opened towards the relay.
MaxTunnelConns == 2
\* Data chunks sent, half-closes and resets performed by the two peers of the
\* relay, all tunnels together.
MaxPeerEvents == 2

\* Control connections that can be opened towards the sidecar.
MaxCtlConns == 1
MaxCtlEvents == 1

\* Characters of the strings in the envelopes whose framing is tried.
MaxStrLen == 2

\* Client requests the ingress proxy accepts (one handler thread each).
MaxHttpRequests == 2

Tunnels == 1..MaxTunnelConns
Conns == 1..MaxCtlConns
Handlers == 1..MaxHttpRequests
\* The control connections there can be: those of the free control peer
\* and those the ingress proxy opens, of which each may carry a request that
\* needs a tunnel connection.
CtlIds == 1..(IF MaxCtlConns > MaxTunnelConns THEN MaxCtlConns ELSE MaxTunnelConns)

(***************************************************************************)
(* Program constants.                                                      *)
(***************************************************************************)
\* TunnelConfig.BUFFER_SIZE
BUFFER_SIZE == 8192

\* HostConfig.MAX_RETRIES
MAX_RETRIES == 3

\* The frame-length cap the specification recommends (16 MiB).  The source
\* defines no such constant; the value is used only to state the cap claim.
FrameCap == 16 * 1024 * 1024

(***************************************************************************)
(* Wire items.                                                             *)
(*                                                                         *)
(* A stream is a sequence of items.  A "frame" item is a 4-byte length     *)
(* prefix announcing len payload bytes, followed by size payload bytes     *)
(* that (when size = len) are the JSON text of msg.  A "data" item is one  *)
(* opaque chunk of bytes; o is a ghost tag naming the peer that produced   *)
(* it ("e" the enclave side, "r" the remote side).                         *)
(***************************************************************************)
NoMsg == [t |-> "none"]
BadJson == [t |-> "badjson"]
\* A JSON value that is no object, such as [].
NotAnObject == [t |-> "array"]

\* len(body.encode('utf-8')) of an ASCII text; BIG stands for a text longer
\* than the frame cap.
Utf8Len(body) == IF body = "BIG" THEN FrameCap + 1 ELSE Len(body)

\* len(json.dumps(m).encode('utf-8')): the envelopes without a body are
\* short; an envelope that carries a body grows with the body.
JsonLen(m) ==
    32 + (IF "body" \in DOMAIN m THEN Utf8Len(m.body) ELSE 0)

\* The sender side of the framing: length prefix, then the payload.
Frame(m) == [k |-> "frame", len |-> JsonLen(m), size |-> JsonLen(m), msg |-> m]

\* A frame whose prefix announces more bytes than the cap (and whose payload,
\* as far as it was sent, is shorter).
OversizeFrame == [k |-> "frame", len |-> FrameCap + 1, size |-> 32, msg |-> BadJson]

\* A well-framed payload that is not JSON.
GarbageFrame == [k |-> "frame", len |-> 32, size |-> 32, msg |-> BadJson]

\* A well-framed payload that is JSON and no object: the two bytes of [].
ArrayFrame == [k |-> "frame", len |-> 2, size |-> 2, msg |-> NotAnObject]

Data(o, v) == [k |-> "data", o |-> o, v |-> v]

\* The tunnel-open envelope.  A missing key, None and "" (0 for the port) are
\* all falsy for the relay's check and are modelled by "" and 0.
OpenMsg(h, p) == [t |-> "open", host |-> h, port |-> p]
ReplyConnected == [t |-> "reply", status |-> "connected", message |-> ""]
ReplyError(e) == [t |-> "reply", status |-> "error", message |-> e]

Hosts == {"example.test", "unreachable.test", ""}
\* The hosts an outbound TCP connection reaches.
Reachable == {"example.test", "selfsigned.test"}

Take(s, n) == SubSeq(s, 1, IF Len(s) < n THEN Len(s) ELSE n)
Drop(s, n) == SubSeq(s, (IF Len(s) < n THEN Len(s) ELSE n) + 1, Len(s))
IsPrefix(s, r) == Len(s) <= Len(r) /\ s = SubSeq(r, 1, Len(s))
DataOf(s) == SelectSeq(s, LAMBDA i : i.k = "data")
FramesOf(s) == SelectSeq(s, LAMBDA i : i.k = "frame")

(***************************************************************************)
(* JSON values and their text, as json.dumps writes it and json.loads      *)
(* reads it.  A string is the sequence of its code points; the members of  *)
(* an object are <<key, value>> pairs in insertion order.  Every value has *)
(* the same four fields, so that any two values can be compared.           *)
(***************************************************************************)
JNull == [j |-> "null", s |-> <<>>, n |-> 0, items |-> <<>>]
JBool(b) == [j |-> IF b THEN "true" ELSE "false", s |-> <<>>, n |-> 0, items |-> <<>>]
JNum(n) == [j |-> "num", s |-> <<>>, n |-> n, items |-> <<>>]
JStr(s) == [j |-> "str", s |-> s, n |-> 0, items |-> <<>>]
JObj(items) == [j |-> "obj", s |-> <<>>, n |-> 0, items |-> items]

\* The ASCII codes the JSON text is made of.
Ascii == [quote |-> 34, backslash |-> 92, comma |-> 44, colon |-> 58, space |-> 32,
          lbrace |-> 123, rbrace |-> 125, zero |-> 48, a |-> 97, u |-> 117]
TextNull == <<110, 117, 108, 108>>
TextTrue == <<116, 114, 117, 101>>
TextFalse == <<102, 97, 108, 115, 101>>

HexDigit(d) == IF d < 10 THEN Ascii.zero + d ELSE Ascii.a + (d - 10)
HexValue(b) == IF b >= Ascii.a THEN b - Ascii.a + 10 ELSE b - Ascii.zero
IsHex(b) == (b >= Ascii.zero /\ b <= Ascii.zero + 9) \/ (b >= Ascii.a /\ b <= Ascii.a + 5)
IsDigit(b) == b >= Ascii.zero /\ b <= Ascii.zero + 9

\* json.dumps of one character of a string (ensure_ascii): the quote and the
\* backslash are escaped, a character outside ASCII becomes \uXXXX.
DumpChar(ch) ==
    IF ch = Ascii.quote THEN <<Ascii.backslash, Ascii.quote>>
    ELSE IF ch = Ascii.backslash THEN <<Ascii.backslash, Ascii.backslash>>
    ELSE IF ch > 126 \/ ch < 32
    THEN <<Ascii.backslash, Ascii.u, HexDigit((ch \div 4096) % 16), HexDigit((ch \div 256) % 16),
           HexDigit((ch \div 16) % 16), HexDigit(ch % 16)>>
    ELSE <<ch>>

RECURSIVE DumpChars(_)
DumpChars(s) == IF s = <<>> THEN <<>> ELSE DumpChar(Head(s)) \o DumpChars(Tail(s))

DumpString(s) == <<Ascii.quote>> \o DumpChars(s) \o <<Ascii.quote>>

RECURSIVE DumpDigits(_)
DumpDigits(n) ==
    IF n < 10 THEN <<Ascii.zero + n>> ELSE DumpDigits(n \div 10) \o <<Ascii.zero + (n % 10)>>

\* json.dumps(value) with the default separators ", " and ": ".
RECURSIVE json_dumps(_)
RECURSIVE DumpItems(_)
DumpItems(items) ==
    IF items = <<>> THEN <<>>
    ELSE DumpString(items[1][1]) \o <<Ascii.colon, Ascii.space>> \o json_dumps(items[1][2])
         \o (IF Len(items) > 1 THEN <<Ascii.comma, Ascii.space>> \o DumpItems(Tail(items)) ELSE <<>>)
json_dumps(v) ==
    CASE v.j = "null" -> TextNull
      [] v.j = "true" -> TextTrue
      [] v.j = "false" -> TextFalse
      [] v.j = "num" -> DumpDigits(v.n)
      [] v.j = "str" -> DumpString(v.s)
      [] v.j = "obj" -> <<Ascii.lbrace>> \o DumpItems(v.items) \o <<Ascii.rbrace>>

\* The result of a parsing step: the value and the text left after it, or a
\* failure (json.JSONDecodeError).
Parsed(v, rest) == [ok |-> TRUE, v |-> v, rest |-> rest]
ParseError == [ok |-> FALSE, v |-> JNull, rest |-> <<>>]

StartsWith(b, text) == Len(b) >= Len(text) /\ SubSeq(b, 1, Len(text)) = text
After(b, n) == SubSeq(b, n + 1, Len(b))

RECURSIVE SkipSpace(_)
SkipSpace(b) == IF b # <<>> /\ Head(b) = Ascii.space THEN SkipSpace(Tail(b)) ELSE b

\* The characters of a string up to its closing quote; b starts after the
\* opening quote.
RECURSIVE ParseChars(_, _)
ParseChars(b, acc) ==
    IF b = <<>> THEN ParseError
    ELSE IF Head(b) = Ascii.quote THEN Parsed(JStr(acc), Tail(b))
    ELSE IF Head(b) # Ascii.backslash THEN ParseChars(Tail(b), Append(acc, Head(b)))
    ELSE IF Len(b) < 2 THEN ParseError
    ELSE IF b[2] \in {Ascii.quote, Ascii.backslash} THEN ParseChars(After(b, 2), Append(acc, b[2]))
    ELSE IF b[2] = Ascii.u /\ Len(b) >= 6 /\ \A i \in 3..6 : IsHex(b[i])
    THEN ParseChars(After(b, 6),
                    Append(acc, 4096 * HexValue(b[3]) + 256 * HexValue(b[4])
                                + 16 * HexValue(b[5]) + HexValue(b[6])))
    ELSE ParseError

RECURSIVE ParseDigits(_, _)
ParseDigits(b, acc) ==
    IF b # <<>> /\ IsDigit(Head(b))
    THEN ParseDigits(Tail(b), 10 * acc + (Head(b) - Ascii.zero))
    ELSE Parsed(JNum(acc), b)

RECURSIVE ParseValue(_)
RECURSIVE ParseMembers(_, _)
\* The members of an object after the opening brace or after a comma.
ParseMembers(b, acc) ==
    LET b1 == SkipSpace(b)
        key == IF b1 # <<>> /\ Head(b1) = Ascii.quote THEN ParseChars(Tail(b1), <<>>) ELSE ParseError
        b2 == SkipSpace(key.rest)
        val == IF key.ok /\ b2 # <<>> /\ Head(b2) = Ascii.colon
               THEN ParseValue(SkipSpace(Tail(b2)))
               ELSE ParseError
        b3 == SkipSpace(val.rest)
        items == Append(acc, <<key.v.s, val.v>>)
    IN  IF ~val.ok \/ b3 = <<>> THEN ParseError
        ELSE IF Head(b3) = Ascii.rbrace THEN Parsed(JObj(items), Tail(b3))
        ELSE IF Head(b3) = Ascii.comma THEN ParseMembers(Tail(b3), items)
        ELSE ParseError
ParseValue(b) ==
    IF b = <<>> THEN ParseError
    ELSE IF Head(b) = Ascii.quote THEN ParseChars(Tail(b), <<>>)
    ELSE IF IsDigit(Head(b)) THEN ParseDigits(b, 0)
    ELSE IF StartsWith(b, TextNull) THEN Parsed(JNull, After(b, 4))
    ELSE IF StartsWith(b, TextTrue) THEN Parsed(JBool(TRUE), After(b, 4))
    ELSE IF StartsWith(b, TextFalse) THEN Parsed(JBool(FALSE), After(b, 5))
    ELSE IF Head(b) = Ascii.lbrace
    THEN IF SkipSpace(Tail(b)) # <<>> /\ Head(SkipSpace(Tail(b))) = Ascii.rbrace
         THEN Parsed(JObj(<<>>), Tail(SkipSpace(Tail(b))))
         ELSE ParseMembers(Tail(b), <<>>)
    ELSE ParseError

\* json.loads(text): the whole text is one value.
json_loads(b) ==
    LET r == ParseValue(SkipSpace(b))
    IN  IF r.ok /\ SkipSpace(r.rest) = <<>> THEN r ELSE ParseError

\* The four bytes of a length, least significant first.
to_bytes_little(n) ==
    <<n % 256, (n \div 256) % 256, (n \div 65536) % 256, (n \div 16777216) % 256>>

\* len(data).to_bytes(4, byteorder='big')
to_bytes(n) ==
    <<(n \div 16777216) % 256, (n \div 65536) % 256, (n \div 256) % 256, n % 256>>

\* int.from_bytes(length_data, byteorder='big')
from_bytes(b) == 16777216 * b[1] + 65536 * b[2] + 256 * b[3] + b[4]

VARIABLES
    \* ---- the relay (NetworkTunnel), per tunnel connection ----
    hpc,        \* position of handle_tunnel_request
    hWant,      \* length read from the 4-byte prefix
    hOpen,      \* the decoded tunnel-open request
    fe,         \* position of forward_enclave_to_target
    ft,         \* position of forward_target_to_enclave
    encW,       \* the relay's transport to the enclave side
    tgtW,       \* the relay's transport to the target
    e2h,        \* items sent by the enclave side, not yet read by the relay
    r2h,        \* items sent by the remote, not yet read by the relay
    h2e,        \* items the relay wrote towards the enclave side
    h2r,        \* items the relay wrote towards the remote
    encRead,    \* ghost: items the copy loop read from the enclave side
    tgtRead,    \* ghost: items the copy loop read from the remote
    \* ---- the peers of the relay ----
    encPeer,    \* the enclave-side socket of the tunnel connection
    tgtPeer,    \* the remote's socket
    encSent,    \* ghost: data items the enclave side sent
    tgtSent,    \* ghost: data items the remote sent
    events,     \* chunks sent, half-closes and resets so far, all tunnels together
    \* ---- the sidecar (VSockServer), per control connection ----
    epc,        \* position of handle_client / process_request
    eWant,      \* length read from the 4-byte prefix (request or tunnel reply)
    eReq,       \* the request being processed
    eResp,      \* the envelope process_request is about to return
    eTun,       \* the tunnel connection the request uses (0: none)
    ctlW,       \* the sidecar's transport of the control connection
    ctlIn,      \* frames sent by the control peer, not yet read by the sidecar
    ctlOut,     \* frames the sidecar wrote on the control connection
    clients,    \* VSockServer.clients
    esRd,       \* per tunnel: items of h2e the sidecar has consumed
    reqsRead,   \* ghost: the requests handle_client decoded, in order
    answers,    \* ghost: request, response and tunnel of every response written
    \* ---- the control peer and the remote server ----
    ctlPeer,    \* the host-side socket of the control connection
    ctlSent,    \* ghost: the frames the control peer sent
    nextReq,    \* requests sent so far, all control connections together
    rmRd,       \* per tunnel: items of h2r the remote server has consumed
    \* ---- one framed message, from its sender to its receiver ----
    cpc,        \* "idle", "ready", "sent", "len_read", "decoded" or "failed"
    cMsg,       \* the envelope the sender frames
    cWire,      \* the bytes written and not yet read
    cWant,      \* the length the receiver decoded from the prefix
    cGot,       \* the envelope the receiver decoded
    \* ---- the ingress proxy (ProxyHandler), per handler thread ----
    ppc,        \* position of _handle_request / _send_with_retry / send_request
    pReq,       \* the client's HTTP request
    attempt,    \* the loop variable of _send_with_retry
    pConn,      \* vsock_client's connection (0: reader and writer are None)
    pRd,        \* frames the client has read from its connection
    pWant,      \* length read from the 4-byte prefix
    httpOut,    \* the HTTP responses written to the client
    pLog,       \* ghost: what the handler did, in order
    pBefore,    \* ghost: VSockServer.clients when the handler started
    nextConn    \* control connections opened so far by the proxy

codecVars == <<cpc, cMsg, cWire, cWant, cGot>>
proxyVars == <<ppc, pReq, attempt, pConn, pRd, pWant, httpOut, pLog, pBefore, nextConn>>
relayVars == <<hpc, hWant, hOpen, fe, ft, encW, tgtW, e2h, r2h, h2e, h2r,
               encRead, tgtRead>>
peerVars == <<encPeer, tgtPeer, encSent, tgtSent, events>>
\* The variables of the ingress proxy and of the framing codec, which the
\* relay, the sidecar and their peers leave alone.
restVars == <<codecVars, proxyVars>>
sidecarVars == <<epc, eWant, eReq, eResp, eTun, ctlW, ctlIn, ctlOut, clients, esRd,
                 reqsRead, answers, ctlPeer, ctlSent, nextReq, rmRd>>
vars == <<relayVars, peerVars, sidecarVars, restVars>>

InitRelay ==
    /\ hpc = [t \in Tunnels |-> "unaccepted"]
    /\ hWant = [t \in Tunnels |-> 0]
    /\ hOpen = [t \in Tunnels |-> NoMsg]
    /\ fe = [t \in Tunnels |-> "off"]
    /\ ft = [t \in Tunnels |-> "off"]
    /\ encW = [t \in Tunnels |-> "none"]
    /\ tgtW = [t \in Tunnels |-> "none"]
    /\ e2h = [t \in Tunnels |-> <<>>]
    /\ r2h = [t \in Tunnels |-> <<>>]
    /\ h2e = [t \in Tunnels |-> <<>>]
    /\ h2r = [t \in Tunnels |-> <<>>]
    /\ encRead = [t \in Tunnels |-> <<>>]
    /\ tgtRead = [t \in Tunnels |-> <<>>]
    /\ encPeer = [t \in Tunnels |-> "none"]
    /\ tgtPeer = [t \in Tunnels |-> "none"]
    /\ encSent = [t \in Tunnels |-> <<>>]
    /\ tgtSent = [t \in Tunnels |-> <<>>]
    /\ events = 0

InitSidecar ==
    /\ epc = [c \in CtlIds |-> "unaccepted"]
    /\ eWant = [c \in CtlIds |-> 0]
    /\ eReq = [c \in CtlIds |-> NoMsg]
    /\ eResp = [c \in CtlIds |-> NoMsg]
    /\ eTun = [c \in CtlIds |-> 0]
    /\ ctlW = [c \in CtlIds |-> "none"]
    /\ ctlIn = [c \in CtlIds |-> <<>>]
    /\ ctlOut = [c \in CtlIds |-> <<>>]
    /\ clients = {}
    /\ esRd = [t \in Tunnels |-> 0]
    /\ reqsRead = [c \in CtlIds |-> <<>>]
    /\ answers = [c \in CtlIds |-> <<>>]
    /\ ctlPeer = [c \in CtlIds |-> "none"]
    /\ ctlSent = [c \in CtlIds |-> <<>>]
    /\ nextReq = 0
    /\ rmRd = [t \in Tunnels |-> 0]

\* No message is being framed.
InitCodecIdle ==
    /\ cpc = "idle"
    /\ cMsg = JNull
    /\ cWire = <<>>
    /\ cWant = 0
    /\ cGot = JNull

\* No client request was accepted yet.
InitProxy ==
    /\ ppc = [h \in Handlers |-> "idle"]
    /\ pReq = [h \in Handlers |-> NoMsg]
    /\ attempt = [h \in Handlers |-> 0]
    /\ pConn = [h \in Handlers |-> 0]
    /\ pRd = [h \in Handlers |-> 0]
    /\ pWant = [h \in Handlers |-> 0]
    /\ httpOut = [h \in Handlers |-> <<>>]
    /\ pLog = [h \in Handlers |-> <<>>]
    /\ pBefore = [h \in Handlers |-> {}]
    /\ nextConn = 0

Init == InitRelay /\ InitSidecar /\ InitCodecIdle /\ InitProxy

(***************************************************************************)
(* asyncio transports and streams, as the relay uses them.                 *)
(*   "open"   established                                                  *)
(*   "closed" closed by the relay itself (transport.close(): both          *)
(*            directions; reads see EOF, later writes are dropped)         *)
(*   "lost"   reset by the peer (reads and drain() raise, writes are       *)
(*            dropped)                                                     *)
(***************************************************************************)
\* StreamWriter.write(items) on a transport in state w, log being what was
\* written so far.
Write(w, log, items) == IF w = "open" THEN log \o items ELSE log

\* StreamWriter.close()
Close(w) == IF w = "open" THEN "closed" ELSE w

\* The reader of a connection is at EOF: the peer finished sending, or the
\* relay closed the transport itself.
AtEof(w, peer, pending) ==
    pending = <<>> /\ (peer \in {"wr_closed", "closed"} \/ w = "closed")

(***************************************************************************)
(* NetworkTunnel.start_tunnel_server: asyncio.start_server runs            *)
(* handle_tunnel_request for every connection made to the port.            *)
(***************************************************************************)
start_tunnel_server(t) ==
    /\ hpc[t] = "unaccepted"
    /\ encPeer[t] # "none"
    /\ hpc' = [hpc EXCEPT ![t] = "read_len"]
    /\ encW' = [encW EXCEPT ![t] = IF encPeer[t] = "aborted" THEN "lost" ELSE "open"]
    /\ UNCHANGED <<hWant, hOpen, fe, ft, tgtW, e2h, r2h, h2e, h2r, encRead, tgtRead>>
    /\ UNCHANGED peerVars
    /\ UNCHANGED sidecarVars
    /\ UNCHANGED restVars

(***************************************************************************)
(* NetworkTunnel.handle_tunnel_request                                     *)
(***************************************************************************)
\* request_length = await enclave_reader.readexactly(4)
\* length = int.from_bytes(request_length, byteorder='big')
\* A short read or a reset raises, and the handler ends in its finally.
HtrReadLength(t) ==
    /\ hpc[t] = "read_len"
    /\ \/ encW[t] = "lost"
       \/ e2h[t] # <<>>
       \/ AtEof(encW[t], encPeer[t], e2h[t])
    /\ IF encW[t] # "lost" /\ e2h[t] # <<>>
       THEN /\ Head(e2h[t]).k = "frame"
            /\ hWant' = [hWant EXCEPT ![t] = Head(e2h[t]).len]
            /\ hpc' = [hpc EXCEPT ![t] = "read_payload"]
            /\ UNCHANGED encW
       ELSE /\ hpc' = [hpc EXCEPT ![t] = "closed"]
            /\ encW' = [encW EXCEPT ![t] = Close(encW[t])]
            /\ UNCHANGED hWant
    /\ UNCHANGED <<hOpen, fe, ft, tgtW, e2h, r2h, h2e, h2r, encRead, tgtRead>>
    /\ UNCHANGED peerVars
    /\ UNCHANGED sidecarVars
    /\ UNCHANGED restVars

\* The decoded request is usable: `if not target_host or not target_port`.
HasTarget(m) == m.host # "" /\ m.port # 0

\* request_data = await enclave_reader.readexactly(length)
\* request = json.loads(request_data.decode('utf-8'))
\* followed by the check of host and port.
HtrReadPayload(t) ==
    LET f == Head(e2h[t])
        complete == encW[t] # "lost" /\ f.size >= hWant[t]
        msg == IF f.size = hWant[t] THEN f.msg ELSE BadJson
    IN
    /\ hpc[t] = "read_payload"
    /\ \/ complete
       \/ encW[t] = "lost"
       \/ encPeer[t] = "wr_closed"
    /\ e2h' = [e2h EXCEPT ![t] = Tail(e2h[t])]
    /\ IF complete /\ msg # BadJson /\ HasTarget(msg)
       THEN /\ hOpen' = [hOpen EXCEPT ![t] = msg]
            /\ hpc' = [hpc EXCEPT ![t] = "connect"]
            /\ UNCHANGED encW
       ELSE \* IncompleteReadError, a JSON error, or the early return:
            \* the connection is closed and nothing is written.
            /\ hpc' = [hpc EXCEPT ![t] = "closed"]
            /\ encW' = [encW EXCEPT ![t] = Close(encW[t])]
            /\ hOpen' = [hOpen EXCEPT ![t] = IF complete THEN msg ELSE NoMsg]
    /\ UNCHANGED <<hWant, fe, ft, tgtW, r2h, h2e, h2r, encRead, tgtRead>>
    /\ UNCHANGED peerVars
    /\ UNCHANGED sidecarVars
    /\ UNCHANGED restVars

\* target_reader, target_writer = await asyncio.open_connection(host, port)
\* then the reply is written: {'status': 'connected'} when the connection
\* was made, {'status': 'error', ...} from the except branch otherwise.
HtrConnect(t) ==
    /\ hpc[t] = "connect"
    /\ IF hOpen[t].host \in Reachable
       THEN /\ tgtW' = [tgtW EXCEPT ![t] = "open"]
            /\ tgtPeer' = [tgtPeer EXCEPT ![t] = "open"]
            /\ h2e' = [h2e EXCEPT ![t] = Write(encW[t], h2e[t], <<Frame(ReplyConnected)>>)]
            /\ hpc' = [hpc EXCEPT ![t] = "drain_connected"]
       ELSE /\ h2e' = [h2e EXCEPT ![t] =
                         Write(encW[t], h2e[t], <<Frame(ReplyError("connect failed"))>>)]
            /\ hpc' = [hpc EXCEPT ![t] = "drain_error"]
            /\ UNCHANGED <<tgtW, tgtPeer>>
    /\ UNCHANGED <<hWant, hOpen, fe, ft, encW, e2h, r2h, h2r, encRead, tgtRead>>
    /\ UNCHANGED <<encPeer, encSent, tgtSent, events>>
    /\ UNCHANGED sidecarVars
    /\ UNCHANGED restVars

\* await enclave_writer.drain() after the connected reply.  When the enclave
\* side is gone the drain raises inside the try: the except branch writes an
\* error reply to the dead transport (dropped), its own drain raises again,
\* and the handler ends in its finally; the target connection stays open.
HtrDrainConnected(t) ==
    /\ hpc[t] = "drain_connected"
    /\ IF encW[t] = "open"
       THEN /\ hpc' = [hpc EXCEPT ![t] = "forward"]
            /\ fe' = [fe EXCEPT ![t] = "read"]
            /\ ft' = [ft EXCEPT ![t] = "read"]
            /\ UNCHANGED h2e
       ELSE /\ h2e' = [h2e EXCEPT ![t] =
                         Write(encW[t], h2e[t], <<Frame(ReplyError("connection lost"))>>)]
            /\ hpc' = [hpc EXCEPT ![t] = "closed"]
            /\ UNCHANGED <<fe, ft>>
    /\ UNCHANGED <<hWant, hOpen, encW, tgtW, e2h, r2h, h2r, encRead, tgtRead>>
    /\ UNCHANGED peerVars
    /\ UNCHANGED sidecarVars
    /\ UNCHANGED restVars

\* await enclave_writer.drain() after the error reply, enclave_writer.close()
HtrDrainError(t) ==
    /\ hpc[t] = "drain_error"
    /\ hpc' = [hpc EXCEPT ![t] = "closed"]
    /\ encW' = [encW EXCEPT ![t] = Close(encW[t])]
    /\ UNCHANGED <<hWant, hOpen, fe, ft, tgtW, e2h, r2h, h2e, h2r, encRead, tgtRead>>
    /\ UNCHANGED peerVars
    /\ UNCHANGED sidecarVars
    /\ UNCHANGED restVars

(***************************************************************************)
(* NetworkTunnel._forward_data_bidirectional: the two copy loops.          *)
(***************************************************************************)
\* A copy loop that puts a chunk in front of what it wrote before.
WriteToTargetReordered(t, data) == IF tgtW[t] = "open" THEN data \o h2r[t] ELSE h2r[t]

\* The writer call of forward_enclave_to_target: target_writer.write(data)
WriteToTarget(t, data) == Write(tgtW[t], h2r[t], data)

\* data = await enclave_reader.read(BUFFER_SIZE); write; or the end of the
\* loop (EOF or an exception) and its finally: target_writer.close()
forward_enclave_to_target(t) ==
    LET data == Take(e2h[t], BUFFER_SIZE) IN
    /\ hpc[t] = "forward"
    /\ fe[t] = "read"
    /\ \/ encW[t] = "lost"
       \/ e2h[t] # <<>>
       \/ AtEof(encW[t], encPeer[t], e2h[t])
    /\ IF encW[t] # "lost" /\ e2h[t] # <<>>
       THEN /\ e2h' = [e2h EXCEPT ![t] = Drop(e2h[t], BUFFER_SIZE)]
            /\ encRead' = [encRead EXCEPT ![t] = encRead[t] \o data]
            /\ h2r' = [h2r EXCEPT ![t] = WriteToTarget(t, data)]
            /\ fe' = [fe EXCEPT ![t] = "drain"]
            /\ UNCHANGED tgtW
       ELSE /\ fe' = [fe EXCEPT ![t] = "done"]
            /\ tgtW' = [tgtW EXCEPT ![t] = Close(tgtW[t])]
            /\ UNCHANGED <<e2h, encRead, h2r>>
    /\ UNCHANGED <<hpc, hWant, hOpen, ft, encW, r2h, h2e, tgtRead>>
    /\ UNCHANGED peerVars
    /\ UNCHANGED sidecarVars
    /\ UNCHANGED restVars

\* await target_writer.drain(): raises when the target transport is gone,
\* which ends the loop through its finally.
drain_enclave_to_target(t) ==
    /\ hpc[t] = "forward"
    /\ fe[t] = "drain"
    /\ IF tgtW[t] = "open"
       THEN /\ fe' = [fe EXCEPT ![t] = "read"]
            /\ UNCHANGED tgtW
       ELSE /\ fe' = [fe EXCEPT ![t] = "done"]
            /\ tgtW' = [tgtW EXCEPT ![t] = Close(tgtW[t])]
    /\ UNCHANGED <<hpc, hWant, hOpen, ft, encW, e2h, r2h, h2e, h2r, encRead, tgtRead>>
    /\ UNCHANGED peerVars
    /\ UNCHANGED sidecarVars
    /\ UNCHANGED restVars

\* The writer call of forward_target_to_enclave: enclave_writer.write(data)
WriteToEnclave(t, data) == Write(encW[t], h2e[t], data)

\* data = await target_reader.read(BUFFER_SIZE); write; or the end of the
\* loop and its finally: enclave_writer.close()
forward_target_to_enclave(t) ==
    LET data == Take(r2h[t], BUFFER_SIZE) IN
    /\ hpc[t] = "forward"
    /\ ft[t] = "read"
    /\ \/ tgtW[t] = "lost"
       \/ r2h[t] # <<>>
       \/ AtEof(tgtW[t], tgtPeer[t], r2h[t])
    /\ IF tgtW[t] # "lost" /\ r2h[t] # <<>>
       THEN /\ r2h' = [r2h EXCEPT ![t] = Drop(r2h[t], BUFFER_SIZE)]
            /\ tgtRead' = [tgtRead EXCEPT ![t] = tgtRead[t] \o data]
            /\ h2e' = [h2e EXCEPT ![t] = WriteToEnclave(t, data)]
            /\ ft' = [ft EXCEPT ![t] = "drain"]
            /\ UNCHANGED encW
       ELSE /\ ft' = [ft EXCEPT ![t] = "done"]
            /\ encW' = [encW EXCEPT ![t] = Close(encW[t])]
            /\ UNCHANGED <<r2h, tgtRead, h2e>>
    /\ UNCHANGED <<hpc, hWant, hOpen, fe, tgtW, e2h, h2r, encRead>>
    /\ UNCHANGED peerVars
    /\ UNCHANGED sidecarVars
    /\ UNCHANGED restVars

\* await enclave_writer.drain()
drain_target_to_enclave(t) ==
    /\ hpc[t] = "forward"
    /\ ft[t] = "drain"
    /\ IF encW[t] = "open"
       THEN /\ ft' = [ft EXCEPT ![t] = "read"]
            /\ UNCHANGED encW
       ELSE /\ ft' = [ft EXCEPT ![t] = "done"]
            /\ encW' = [encW EXCEPT ![t] = Close(encW[t])]
    /\ UNCHANGED <<hpc, hWant, hOpen, fe, tgtW, e2h, r2h, h2e, h2r, encRead, tgtRead>>
    /\ UNCHANGED peerVars
    /\ UNCHANGED sidecarVars
    /\ UNCHANGED restVars

\* await asyncio.gather(...) returns when both loops have ended; then the
\* finally of handle_tunnel_request closes the enclave writer if it is not
\* closing yet.
HtrTunnelClosed(t) ==
    /\ hpc[t] = "forward"
    /\ fe[t] = "done"
    /\ ft[t] = "done"
    /\ hpc' = [hpc EXCEPT ![t] = "closed"]
    /\ encW' = [encW EXCEPT ![t] = Close(encW[t])]
    /\ UNCHANGED <<hWant, hOpen, fe, ft, tgtW, e2h, r2h, h2e, h2r, encRead, tgtRead>>
    /\ UNCHANGED peerVars
    /\ UNCHANGED sidecarVars
    /\ UNCHANGED restVars

handle_tunnel_request(t) ==
    \/ HtrReadLength(t)
    \/ HtrReadPayload(t)
    \/ HtrConnect(t)
    \/ HtrDrainConnected(t)
    \/ HtrDrainError(t)
    \/ forward_enclave_to_target(t)
    \/ drain_enclave_to_target(t)
    \/ forward_target_to_enclave(t)
    \/ drain_target_to_enclave(t)
    \/ HtrTunnelClosed(t)

(***************************************************************************)
(* The peers of the relay, unconstrained: any client on the enclave side   *)
(* of the tunnel port, any server on the remote side.                      *)
(***************************************************************************)
\* What a send reaches: the relay's buffer while its transport is open (or
\* the connection still waits to be accepted), nothing afterwards.
Deliver(w, pending, item) ==
    IF w \in {"open", "none"} THEN Append(pending, item) ELSE pending

\* The peers act on the connection opened last; the connections opened before
\* it stay established (the relay keeps serving them) and idle.
Latest(t) == IF t = MaxTunnelConns THEN TRUE ELSE encPeer[t + 1] = "none"

OpenFrames ==
    {Frame(OpenMsg(h, 443)) : h \in Hosts}
        \cup {Frame(OpenMsg("example.test", 0)), OversizeFrame, GarbageFrame}

\* The relay has nothing to do on connection t until its peers act again.
Idle(t) == hpc[t] # "unaccepted" /\ ~ENABLED handle_tunnel_request(t)

\* Connections are opened one after the other, each while the relay is idle on
\* the one before; they are held open together.  (The handlers of different
\* connections share no state, so their steps commute.)
EnclaveConnect(t) ==
    /\ encPeer[t] = "none"
    /\ IF t = 1 THEN TRUE ELSE Idle(t - 1)
    /\ encPeer' = [encPeer EXCEPT ![t] = "open"]
    /\ UNCHANGED <<tgtPeer, encSent, tgtSent, events>>
    /\ UNCHANGED relayVars
    /\ UNCHANGED sidecarVars
    /\ UNCHANGED restVars

EnclaveSendOpen(t) ==
    /\ Latest(t)
    /\ encPeer[t] = "open"
    /\ encSent[t] = <<>>
    /\ \E f \in OpenFrames :
         /\ e2h' = [e2h EXCEPT ![t] = Deliver(encW[t], e2h[t], f)]
         /\ encSent' = [encSent EXCEPT ![t] = <<f>>]
    /\ UNCHANGED <<encPeer, tgtPeer, tgtSent, events>>
    /\ UNCHANGED <<hpc, hWant, hOpen, fe, ft, encW, tgtW, r2h, h2e, h2r, encRead, tgtRead>>
    /\ UNCHANGED sidecarVars
    /\ UNCHANGED restVars

EnclaveSendData(t) ==
    LET d == Data("e", events + 1) IN
    /\ Latest(t)
    /\ encPeer[t] = "open"
    /\ encSent[t] # <<>>
    /\ events < MaxPeerEvents
    /\ events' = events + 1
    /\ e2h' = [e2h EXCEPT ![t] = Deliver(encW[t], e2h[t], d)]
    /\ encSent' = [encSent EXCEPT ![t] = Append(encSent[t], d)]
    /\ UNCHANGED <<encPeer, tgtPeer, tgtSent>>
    /\ UNCHANGED <<hpc, hWant, hOpen, fe, ft, encW, tgtW, r2h, h2e, h2r, encRead, tgtRead>>
    /\ UNCHANGED sidecarVars
    /\ UNCHANGED restVars

\* shutdown(SHUT_WR): the peer stops sending and keeps receiving.
EnclaveHalfClose(t) ==
    /\ Latest(t)
    /\ events < MaxPeerEvents
    /\ events' = events + 1
    /\ encPeer[t] = "open"
    /\ encPeer' = [encPeer EXCEPT ![t] = "wr_closed"]
    /\ UNCHANGED <<tgtPeer, encSent, tgtSent>>
    /\ UNCHANGED relayVars
    /\ UNCHANGED sidecarVars
    /\ UNCHANGED restVars

\* The peer resets the connection.
EnclaveAbort(t) ==
    /\ Latest(t)
    /\ events < MaxPeerEvents
    /\ events' = events + 1
    /\ encPeer[t] \in {"open", "wr_closed"}
    /\ encPeer' = [encPeer EXCEPT ![t] = "aborted"]
    /\ encW' = [encW EXCEPT ![t] = IF encW[t] = "open" THEN "lost" ELSE encW[t]]
    /\ UNCHANGED <<tgtPeer, encSent, tgtSent>>
    /\ UNCHANGED <<hpc, hWant, hOpen, fe, ft, tgtW, e2h, r2h, h2e, h2r, encRead, tgtRead>>
    /\ UNCHANGED sidecarVars
    /\ UNCHANGED restVars

RemoteSendData(t) ==
    LET d == Data("r", events + 1) IN
    /\ Latest(t)
    /\ tgtPeer[t] = "open"
    /\ events < MaxPeerEvents
    /\ events' = events + 1
    /\ r2h' = [r2h EXCEPT ![t] = Deliver(tgtW[t], r2h[t], d)]
    /\ tgtSent' = [tgtSent EXCEPT ![t] = Append(tgtSent[t], d)]
    /\ UNCHANGED <<encPeer, tgtPeer, encSent>>
    /\ UNCHANGED <<hpc, hWant, hOpen, fe, ft, encW, tgtW, e2h, h2e, h2r, encRead, tgtRead>>
    /\ UNCHANGED sidecarVars
    /\ UNCHANGED restVars

RemoteHalfClose(t) ==
    /\ Latest(t)
    /\ events < MaxPeerEvents
    /\ events' = events + 1
    /\ tgtPeer[t] = "open"
    /\ tgtPeer' = [tgtPeer EXCEPT ![t] = "wr_closed"]
    /\ UNCHANGED <<encPeer, encSent, tgtSent>>
    /\ UNCHANGED relayVars
    /\ UNCHANGED sidecarVars
    /\ UNCHANGED restVars

RemoteAbort(t) ==
    /\ Latest(t)
    /\ events < MaxPeerEvents
    /\ events' = events + 1
    /\ tgtPeer[t] \in {"open", "wr_closed"}
    /\ tgtPeer' = [tgtPeer EXCEPT ![t] = "aborted"]
    /\ tgtW' = [tgtW EXCEPT ![t] = IF tgtW[t] = "open" THEN "lost" ELSE tgtW[t]]
    /\ UNCHANGED <<encPeer, encSent, tgtSent>>
    /\ UNCHANGED <<hpc, hWant, hOpen, fe, ft, encW, e2h, r2h, h2e, h2r, encRead, tgtRead>>
    /\ UNCHANGED sidecarVars
    /\ UNCHANGED restVars

NextRelay ==
    \E t \in Tunnels :
        \/ start_tunnel_server(t)
        \/ handle_tunnel_request(t)
        \/ EnclaveConnect(t)
        \/ EnclaveSendOpen(t)
        \/ EnclaveSendData(t)
        \/ EnclaveHalfClose(t)
        \/ EnclaveAbort(t)
        \/ RemoteSendData(t)
        \/ RemoteHalfClose(t)
        \/ RemoteAbort(t)

SpecRelay == Init /\ [][NextRelay]_vars

(***************************************************************************)
(* The framing of one envelope, from the sender's writes to the receiver's *)
(* decode.  All four channels frame alike: VSockClient.send_request,       *)
(* VSockServer.handle_client and send_response, TunnelClient.create_tunnel *)
(* and NetworkTunnel.handle_tunnel_request.                                *)
(***************************************************************************)
\* The code points of the names and fixed texts of the envelopes.
Text == [method |-> <<109, 101, 116, 104, 111, 100>>,
         url |-> <<117, 114, 108>>,
         headers |-> <<104, 101, 97, 100, 101, 114, 115>>,
         body |-> <<98, 111, 100, 121>>,
         status |-> <<115, 116, 97, 116, 117, 115>>,
         error |-> <<101, 114, 114, 111, 114>>,
         success |-> <<115, 117, 99, 99, 101, 115, 115>>,
         host |-> <<104, 111, 115, 116>>,
         port |-> <<112, 111, 114, 116>>,
         message |-> <<109, 101, 115, 115, 97, 103, 101>>,
         GET |-> <<71, 69, 84>>,
         connected |-> <<99, 111, 110, 110, 101, 99, 116, 101, 100>>,
         Host |-> <<72, 111, 115, 116>>]

\* The characters of the strings tried: a letter, the quote, the backslash
\* and a letter outside ASCII.
Chars == {97, 34, 92, 233}
StringsUpTo(n) == UNION {[1..k -> Chars] : k \in 0..n}
Strings == StringsUpTo(MaxStrLen)
ShortStrings == StringsUpTo(1)

\* The envelopes of the four channels, as JSON values.
RequestEnvelopes ==
    { JObj(<< <<Text.method, JStr(Text.GET)>>, <<Text.url, JStr(u)>>,
              <<Text.headers, h>>, <<Text.body, b>> >>) :
        u \in Strings,
        h \in {JObj(<<>>), JObj(<< <<Text.Host, JStr(Text.host)>> >>)},
        b \in {JNull} \cup {JStr(x) : x \in ShortStrings} }
ResponseEnvelopes ==
    { JObj(<< <<Text.status, JNum(200)>>, <<Text.headers, JObj(<<>>)>>,
              <<Text.body, JStr(b)>>, <<Text.success, JBool(TRUE)>> >>) : b \in Strings }
    \cup { JObj(<< <<Text.status, JNum(503)>>, <<Text.error, JStr(e)>>,
                   <<Text.success, JBool(FALSE)>> >>) : e \in ShortStrings }
    \cup { JObj(<< <<Text.status, JNum(400)>>, <<Text.error, JStr(e)>> >>) :
             e \in ShortStrings }
TunnelOpenEnvelopes ==
    { JObj(<< <<Text.host, JStr(h)>>, <<Text.port, JNum(p)>> >>) :
        h \in ShortStrings, p \in {0, 443, 65535} }
TunnelReplyEnvelopes ==
    { JObj(<< <<Text.status, JStr(Text.connected)>> >>) }
    \cup { JObj(<< <<Text.status, JStr(Text.error)>>, <<Text.message, JStr(e)>> >>) :
             e \in ShortStrings }
Envelopes ==
    RequestEnvelopes \cup ResponseEnvelopes \cup TunnelOpenEnvelopes \cup TunnelReplyEnvelopes

\* One envelope is about to be framed.
InitCodec ==
    /\ cpc = "ready"
    /\ cMsg \in Envelopes
    /\ cWire = <<>>
    /\ cWant = 0
    /\ cGot = JNull

\* data = json.dumps(m).encode('utf-8'); write(len(data).to_bytes(4, 'big'));
\* write(data).  The text json.dumps returns is ASCII, so its UTF-8 encoding
\* has the same bytes.  to_bytes raises OverflowError from 2^32 on.
SendFrame ==
    LET data == json_dumps(cMsg) IN
    /\ cpc = "ready"
    /\ IF Len(data) \div 65536 < 65536
       THEN /\ cWire' = to_bytes(Len(data)) \o data
            /\ cpc' = "sent"
       ELSE /\ cpc' = "failed"
            /\ UNCHANGED cWire
    /\ UNCHANGED <<cMsg, cWant, cGot>>
    /\ UNCHANGED <<relayVars, peerVars, sidecarVars, proxyVars>>

\* length_data = await reader.readexactly(4); int.from_bytes(length_data, 'big')
RecvLength ==
    /\ cpc = "sent"
    /\ IF Len(cWire) >= 4
       THEN /\ cWant' = from_bytes(SubSeq(cWire, 1, 4))
            /\ cWire' = After(cWire, 4)
            /\ cpc' = "len_read"
       ELSE /\ cpc' = "failed"
            /\ UNCHANGED <<cWire, cWant>>
    /\ UNCHANGED <<cMsg, cGot>>
    /\ UNCHANGED <<relayVars, peerVars, sidecarVars, proxyVars>>

\* data = await reader.readexactly(length); json.loads(data.decode('utf-8'))
RecvPayload ==
    LET r == json_loads(SubSeq(cWire, 1, cWant)) IN
    /\ cpc = "len_read"
    /\ IF Len(cWire) >= cWant /\ r.ok
       THEN /\ cGot' = r.v
            /\ cWire' = After(cWire, cWant)
            /\ cpc' = "decoded"
       ELSE /\ cpc' = "failed"
            /\ UNCHANGED <<cWire, cGot>>
    /\ UNCHANGED <<cMsg, cWant>>
    /\ UNCHANGED <<relayVars, peerVars, sidecarVars, proxyVars>>

NextFraming == SendFrame \/ RecvLength \/ RecvPayload

InitFraming == InitRelay /\ InitSidecar /\ InitProxy /\ InitCodec

SpecFraming ==
    InitFraming /\ [][NextFraming]_vars

(***************************************************************************)
(* URLs, as urlparse splits them.  port is the text after the host's colon *)
(* ("" when there is none); empty says that the url field is missing or    *)
(* the empty string.                                                       *)
(***************************************************************************)
Url(s, h, p) == [empty |-> FALSE, scheme |-> s, host |-> h, port |-> p]
NoUrl == [empty |-> TRUE, scheme |-> "", host |-> "", port |-> ""]

\* ParseResult.port raises ValueError unless the text is a number in 0..65535.
PortIsValid(u) == u.port \in {"", "8443"}
\* ParseResult.port (0 stands for None)
PortNumber(u) == IF u.port = "8443" THEN 8443 ELSE 0

Urls == { NoUrl,
          Url("https", "example.test", ""),
          Url("https", "example.test", "8443"),
          Url("https", "unreachable.test", ""),
          Url("https", "selfsigned.test", ""),
          Url("http", "example.test", ""),
          Url("", "example.test", ""),
          Url("http", "example.test", "99999") }

\* The requests clients send: a GET of every URL, and a POST with a body to
\* an https and to an http URL.
ClientRequests ==
    { [method |-> "GET", url |-> u, body |-> ""] : u \in Urls }
    \cup { [method |-> "POST", url |-> u, body |-> "B1"] :
             u \in {Url("https", "example.test", ""), Url("http", "example.test", "")} }

(***************************************************************************)
(* Envelopes of the control channel.                                       *)
(***************************************************************************)
\* ProxyHandler._handle_request builds the request envelope.
EnclaveRequest(method, url, headers, body) ==
    [t |-> "req", method |-> method, url |-> url, headers |-> headers, body |-> body]

\* The returns of process_request and _read_http_response.
BadRequest(e) == [t |-> "resp", status |-> 400, error |-> e]
ConnectionFailed(e) == [t |-> "resp", status |-> 503, error |-> e, success |-> FALSE]
InternalError(e) == [t |-> "resp", status |-> 500, error |-> e, success |-> FALSE]
ParsingFailed(e) == [t |-> "resp", status |-> 502, error |-> e, success |-> FALSE]
Success(status, headers, body) ==
    [t |-> "resp", status |-> status, headers |-> headers, body |-> body, success |-> TRUE]

(***************************************************************************)
(* TLS, as far as an observer of the tunnel is concerned: the handshake    *)
(* records are readable, an application record is sealed.                  *)
(***************************************************************************)
ClientHello(host) == [k |-> "hello", sni |-> host]
ServerHello(cert) == [k |-> "shello", cert |-> cert]

\* ssl_transport.write(data): the data leaves as a sealed record.
TlsWrite(text) == [k |-> "tls", sealed |-> text]

\* The certificate the server of a host presents.
CertOf(host) == IF host = "selfsigned.test" THEN "untrusted" ELSE "trusted"

(***************************************************************************)
(* VSockServer._build_http_request: the lines later joined by CRLF.        *)
(* headers is the sequence of <<name, value>> pairs of the dict.           *)
(***************************************************************************)
HasHeader(headers, name) == \E i \in 1..Len(headers) : headers[i][1] = name

HeaderLines(headers) ==
    [i \in 1..Len(headers) |-> [l |-> "header", name |-> headers[i][1], value |-> headers[i][2]]]

_build_http_request(method, path, headers, body, host) ==
    LET hs == IF HasHeader(headers, "Host") THEN headers
              ELSE Append(headers, <<"Host", host>>)
    IN  <<[l |-> "request", method |-> method, path |-> path]>>
        \o HeaderLines(hs)
        \o (IF body # "" /\ ~HasHeader(hs, "Content-Length")
            THEN <<[l |-> "header", name |-> "Content-Length",
                    value |-> ToString(Utf8Len(body))]>>
            ELSE <<>>)
        \o (IF ~HasHeader(hs, "Connection")
            THEN <<[l |-> "header", name |-> "Connection", value |-> "close"]>>
            ELSE <<>>)
        \o <<[l |-> "blank"]>>
        \o (IF body # "" THEN <<[l |-> "body", text |-> body]>> ELSE <<>>)

\* The text of one element of request_lines.
LineText(ln) ==
    CASE ln.l = "request" -> ln.method \o " " \o ln.path \o " HTTP/1.1"
      [] ln.l = "header" -> ln.name \o ": " \o ln.value
      [] ln.l = "blank" -> ""
      [] ln.l = "body" -> ln.text

\* "\r\n".join(request_lines)
RECURSIVE JoinCrlf(_)
JoinCrlf(lines) ==
    IF lines = <<>> THEN ""
    ELSE IF Len(lines) = 1 THEN LineText(lines[1])
    ELSE LineText(lines[1]) \o "\r\n" \o JoinCrlf(Tail(lines))

(***************************************************************************)
(* VSockServer._read_http_response, on the lines of the decrypted stream   *)
(* (<<>> is a stream that ends before any line).                           *)
(***************************************************************************)
\* The responses of the remote server: its lines, as for a request.
HttpOk ==
    << [l |-> "status", proto |-> "HTTP/1.1", code |-> 200],
       [l |-> "header", name |-> "Content-Length", value |-> "2"],
       [l |-> "blank"],
       [l |-> "body", text |-> "R1"] >>
HttpMalformed == << [l |-> "status", proto |-> "SSH-2.0", code |-> 0] >>
HttpResponses == {HttpOk, HttpMalformed}

LinesOf(lines, kind) == SelectSeq(lines, LAMBDA ln : ln.l = kind)

\* int(text): an optional sign and decimal digits; anything else raises
\* ValueError.
DigitsOf == [d \in {"0", "1", "2", "3", "4", "5", "6", "7", "8", "9"} |->
               CASE d = "0" -> 0 [] d = "1" -> 1 [] d = "2" -> 2 [] d = "3" -> 3
                 [] d = "4" -> 4 [] d = "5" -> 5 [] d = "6" -> 6 [] d = "7" -> 7
                 [] d = "8" -> 8 [] d = "9" -> 9]
CharAt(text, i) == SubSeq(text, i, i)
Unsigned(text) ==
    IF Len(text) > 0 /\ CharAt(text, 1) \in {"+", "-"}
    THEN SubSeq(text, 2, Len(text)) ELSE text
IsIntText(text) ==
    /\ Len(Unsigned(text)) > 0
    /\ \A i \in 1..Len(Unsigned(text)) : CharAt(Unsigned(text), i) \in DOMAIN DigitsOf
RECURSIVE NatOf(_)
NatOf(digits) ==
    IF digits = "" THEN 0
    ELSE 10 * NatOf(SubSeq(digits, 1, Len(digits) - 1)) + DigitsOf[CharAt(digits, Len(digits))]
IntOf(text) ==
    IF CharAt(text, 1) = "-" THEN 0 - NatOf(Unsigned(text)) ELSE NatOf(Unsigned(text))

\* response_headers[name]: the value of the last header line of that name.
HeaderValue(header_lines, name) ==
    LET named == SelectSeq(header_lines, LAMBDA ln : ln.name = name)
    IN  named[Len(named)].value

\* The body is what follows the header block on the stream: readexactly of
\* Content-Length bytes when the headers have that key (int() of a text
\* that is no number, readexactly of a negative count and a stream that ends
\* before the count all raise), else read() up to the end of the stream.
_read_http_response(lines) ==
    LET status_line == IF lines = <<>> THEN [l |-> "blank"] ELSE lines[1]
        header_lines == LinesOf(lines, "header")
        body_lines == LinesOf(lines, "body")
        stream == IF body_lines = <<>> THEN "" ELSE body_lines[1].text
        headers == [i \in 1..Len(header_lines) |->
                      <<header_lines[i].name, header_lines[i].value>>]
        content_length == HeaderValue(header_lines, "Content-Length")
    IN
    IF status_line.l # "status" \/ status_line.proto \notin {"HTTP/1.0", "HTTP/1.1"}
    THEN ParsingFailed("Response parsing failed")
    ELSE IF HasHeader(headers, "Content-Length")
    THEN IF IsIntText(content_length) /\ IntOf(content_length) >= 0
            /\ IntOf(content_length) <= Len(stream)
         THEN Success(status_line.code, headers, SubSeq(stream, 1, IntOf(content_length)))
         ELSE ParsingFailed("Response parsing failed")
    ELSE Success(status_line.code, headers, stream)

(***************************************************************************)
(* VSockServer.process_request up to its first await: the validation.      *)
(* The result is either an envelope to return or the target of the tunnel. *)
(***************************************************************************)
ValidateRequest(request) ==
    LET url == request.url IN
    IF url.empty
    THEN [kind |-> "return", resp |-> BadRequest("URL is required")]
    ELSE IF ~PortIsValid(url)
    THEN \* parsed_url.port raises ValueError, caught by the outer except
         [kind |-> "return", resp |-> InternalError("Internal error")]
    ELSE IF url.scheme # "https"
    THEN [kind |-> "return", resp |-> BadRequest("Only HTTPS URLs are supported for security")]
    ELSE [kind |-> "tunnel", host |-> url.host,
          port |-> IF PortNumber(url) # 0 THEN PortNumber(url) ELSE 443]

(***************************************************************************)
(* VSockServer.handle_client                                               *)
(***************************************************************************)
\* A handle_client whose finally leaves the client in the set.
ClientGoneStays(c) ==
    /\ epc' = [epc EXCEPT ![c] = "closed"]
    /\ clients' = clients
    /\ ctlW' = [ctlW EXCEPT ![c] = Close(ctlW[c])]

\* The finally of handle_client.
ClientGone(c) ==
    /\ epc' = [epc EXCEPT ![c] = "closed"]
    /\ clients' = clients \ {c}
    /\ ctlW' = [ctlW EXCEPT ![c] = Close(ctlW[c])]

\* A send_response that writes the frame twice.
send_response_twice(c, response) ==
    Write(ctlW[c], ctlOut[c], <<Frame(response), Frame(response)>>)

\* VSockServer.send_response: the frame written on the control connection.
send_response(c, response) == Write(ctlW[c], ctlOut[c], <<Frame(response)>>)

\* process_request returns `response` for `request`; handle_client writes it
\* and awaits the drain.
Return(c, request, response, tun) ==
    /\ ctlOut' = [ctlOut EXCEPT ![c] = send_response(c, response)]
    /\ answers' = [answers EXCEPT ![c] =
                     IF ctlW[c] = "open"
                     THEN Append(@, [req |-> request, resp |-> response, tun |-> tun])
                     ELSE @]
    /\ epc' = [epc EXCEPT ![c] = "send_drain"]
    /\ eReq' = [eReq EXCEPT ![c] = NoMsg]
    /\ eResp' = [eResp EXCEPT ![c] = NoMsg]
    /\ eTun' = [eTun EXCEPT ![c] = 0]

\* asyncio.start_server runs handle_client for every connection.
start(c) ==
    /\ epc[c] = "unaccepted"
    /\ ctlPeer[c] # "none"
    /\ epc' = [epc EXCEPT ![c] = "read_len"]
    /\ ctlW' = [ctlW EXCEPT ![c] = IF ctlPeer[c] = "aborted" THEN "lost" ELSE "open"]
    /\ clients' = clients \cup {c}
    /\ UNCHANGED <<eWant, eReq, eResp, eTun, ctlIn, ctlOut, esRd, reqsRead, answers,
                   ctlPeer, ctlSent, nextReq, rmRd>>
    /\ UNCHANGED <<relayVars, peerVars>>
    /\ UNCHANGED restVars

\* length_data = await reader.readexactly(4)
EsReadLength(c) ==
    /\ epc[c] = "read_len"
    /\ \/ ctlW[c] = "lost"
       \/ ctlIn[c] # <<>>
       \/ AtEof(ctlW[c], ctlPeer[c], ctlIn[c])
    /\ IF ctlW[c] # "lost" /\ ctlIn[c] # <<>>
       THEN /\ eWant' = [eWant EXCEPT ![c] = Head(ctlIn[c]).len]
            /\ epc' = [epc EXCEPT ![c] = "read_payload"]
            /\ UNCHANGED <<clients, ctlW>>
       ELSE /\ ClientGone(c)
            /\ UNCHANGED eWant
    /\ UNCHANGED <<eReq, eResp, eTun, ctlIn, ctlOut, esRd, reqsRead, answers,
                   ctlPeer, ctlSent, nextReq, rmRd>>
    /\ UNCHANGED <<relayVars, peerVars>>
    /\ UNCHANGED restVars

\* message_data = await reader.readexactly(message_length); json.loads;
\* the log line calls message.get, which raises AttributeError when the
\* JSON value is no object; then process_request runs up to its first await.
EsReadPayload(c) ==
    LET f == Head(ctlIn[c])
        complete == ctlW[c] # "lost" /\ f.size >= eWant[c]
        msg == IF f.size = eWant[c] THEN f.msg ELSE BadJson
        v == IF msg \in {BadJson, NotAnObject} THEN [kind |-> "none"]
             ELSE ValidateRequest(msg)
    IN
    /\ epc[c] = "read_payload"
    /\ \/ complete
       \/ ctlW[c] = "lost"
       \/ ctlPeer[c] = "wr_closed"
    /\ ctlIn' = [ctlIn EXCEPT ![c] = Tail(ctlIn[c])]
    /\ IF complete /\ msg # BadJson /\ msg # NotAnObject
       THEN /\ reqsRead' = [reqsRead EXCEPT ![c] = Append(@, msg)]
            /\ IF v.kind = "return"
               THEN Return(c, msg, v.resp, 0)
               ELSE /\ eReq' = [eReq EXCEPT ![c] = msg]
                    /\ epc' = [epc EXCEPT ![c] = "tun_connect"]
                    /\ UNCHANGED <<eResp, eTun, ctlOut, answers>>
            /\ UNCHANGED <<clients, ctlW>>
       ELSE /\ ClientGone(c)
            /\ UNCHANGED <<eReq, eResp, eTun, ctlOut, reqsRead, answers>>
    /\ UNCHANGED <<eWant, esRd, ctlPeer, ctlSent, nextReq, rmRd>>
    /\ UNCHANGED <<relayVars, peerVars>>
    /\ UNCHANGED restVars

\* A loop that takes input that arrived before the response was written for
\* a protocol error and closes the connection.
EsSendDrainClosing(c) ==
    /\ epc[c] = "send_drain"
    /\ IF ctlIn[c] # <<>>
       THEN ClientGone(c)
       ELSE /\ epc' = [epc EXCEPT ![c] = "read_len"]
            /\ UNCHANGED <<clients, ctlW>>
    /\ UNCHANGED <<eWant, eReq, eResp, eTun, ctlIn, ctlOut, esRd, reqsRead,
                   answers, ctlPeer, ctlSent, nextReq, rmRd>>
    /\ UNCHANGED <<relayVars, peerVars>>
    /\ UNCHANGED restVars

\* await writer.drain() in send_response (an exception is logged and
\* swallowed), then the loop reads the next request.
EsSendDrain(c) ==
    /\ epc[c] = "send_drain"
    /\ epc' = [epc EXCEPT ![c] = "read_len"]
    /\ UNCHANGED <<eWant, eReq, eResp, eTun, ctlW, ctlIn, ctlOut, clients, esRd, reqsRead,
                   answers, ctlPeer, ctlSent, nextReq, rmRd>>
    /\ UNCHANGED <<relayVars, peerVars>>
    /\ UNCHANGED restVars

(***************************************************************************)
(* TunnelClient.create_tunnel and the rest of process_request.             *)
(***************************************************************************)
\* What the sidecar writes on the tunnel connection reaches the relay.
TunnelSend(t, item) ==
    /\ e2h' = [e2h EXCEPT ![t] = Deliver(encW[t], e2h[t], item)]
    /\ encSent' = [encSent EXCEPT ![t] = Append(encSent[t], item)]

\* The next item the relay wrote on tunnel t is there to be read.
TunnelReadable(t) == esRd[t] < Len(h2e[t])
TunnelItem(t) == h2e[t][esRd[t] + 1]
\* The relay closed the connection and everything it wrote was read.
TunnelEof(t) == esRd[t] = Len(h2e[t]) /\ encW[t] = "closed"

\* A create_tunnel that keeps one tunnel connection and sends every
\* tunnel-open request on it.
EsTunnelConnectReusing(c) ==
    LET t == 1
        v == ValidateRequest(eReq[c])
    IN
    /\ epc[c] = "tun_connect"
    /\ encPeer' = [encPeer EXCEPT ![t] = IF @ = "none" THEN "open" ELSE @]
    /\ TunnelSend(t, Frame(OpenMsg(v.host, v.port)))
    /\ eTun' = [eTun EXCEPT ![c] = t]
    /\ epc' = [epc EXCEPT ![c] = "tun_read_len"]
    /\ UNCHANGED <<eWant, eReq, eResp, ctlW, ctlIn, ctlOut, clients, esRd, reqsRead, answers,
                   ctlPeer, ctlSent, nextReq, rmRd>>
    /\ UNCHANGED <<hpc, hWant, hOpen, fe, ft, encW, tgtW, r2h, h2e, h2r, encRead, tgtRead>>
    /\ UNCHANGED <<tgtPeer, tgtSent, events>>
    /\ UNCHANGED restVars

\* await asyncio.open_connection(host_cid, tunnel_port); the request is
\* written; await writer.drain()
EsTunnelConnect(c) ==
    LET t == eReq[c].id
        v == ValidateRequest(eReq[c])
    IN
    /\ epc[c] = "tun_connect"
    /\ encPeer[t] = "none"
    /\ encPeer' = [encPeer EXCEPT ![t] = "open"]
    /\ TunnelSend(t, Frame(OpenMsg(v.host, v.port)))
    /\ eTun' = [eTun EXCEPT ![c] = t]
    /\ epc' = [epc EXCEPT ![c] = "tun_read_len"]
    /\ UNCHANGED <<eWant, eReq, eResp, ctlW, ctlIn, ctlOut, clients, esRd, reqsRead, answers,
                   ctlPeer, ctlSent, nextReq, rmRd>>
    /\ UNCHANGED <<hpc, hWant, hOpen, fe, ft, encW, tgtW, r2h, h2e, h2r, encRead, tgtRead>>
    /\ UNCHANGED <<tgtPeer, tgtSent, events>>
    /\ UNCHANGED restVars

\* response_length = await reader.readexactly(4)
EsTunnelReadLength(c) ==
    LET t == eTun[c] IN
    /\ epc[c] = "tun_read_len"
    /\ TunnelReadable(t) \/ TunnelEof(t)
    /\ IF TunnelReadable(t)
       THEN /\ eWant' = [eWant EXCEPT ![c] = TunnelItem(t).len]
            /\ epc' = [epc EXCEPT ![c] = "tun_read_payload"]
            /\ UNCHANGED <<eReq, eResp, eTun, ctlOut, answers>>
       ELSE /\ Return(c, eReq[c], ConnectionFailed("IncompleteReadError"), t)
            /\ UNCHANGED eWant
    /\ UNCHANGED <<ctlW, ctlIn, clients, esRd, reqsRead, ctlPeer, ctlSent, nextReq, rmRd>>
    /\ UNCHANGED <<relayVars, peerVars>>
    /\ UNCHANGED restVars

\* response_data = await reader.readexactly(length); the reply is decoded;
\* on "connected" process_request goes on to start_tls, which sends the
\* ClientHello and awaits the handshake.
EsTunnelReadPayload(c) ==
    LET t == eTun[c]
        reply == TunnelItem(t).msg
    IN
    /\ epc[c] = "tun_read_payload"
    /\ TunnelReadable(t)
    /\ TunnelItem(t).size >= eWant[c]
    /\ esRd' = [esRd EXCEPT ![t] = @ + 1]
    /\ IF reply.status = "connected"
       THEN /\ TunnelSend(t, ClientHello(ValidateRequest(eReq[c]).host))
            /\ epc' = [epc EXCEPT ![c] = "tls_handshake"]
            /\ UNCHANGED <<eReq, eResp, eTun, ctlOut, answers>>
       ELSE /\ Return(c, eReq[c], ConnectionFailed("Tunnel creation failed"), t)
            /\ UNCHANGED <<e2h, encSent>>
    /\ UNCHANGED <<eWant, ctlW, ctlIn, clients, reqsRead, ctlPeer, ctlSent, nextReq, rmRd>>
    /\ UNCHANGED <<hpc, hWant, hOpen, fe, ft, encW, tgtW, r2h, h2e, h2r, encRead, tgtRead>>
    /\ UNCHANGED <<encPeer, tgtPeer, tgtSent, events>>
    /\ UNCHANGED restVars

\* The HTTP request written on the tunnel stream as it is.
WriteHttpRequestRaw(http_request) == [k |-> "plain", text |-> http_request]

\* ssl_transport.write(http_request): the HTTP request leaves through the
\* TLS session.
WriteHttpRequest(http_request) == TlsWrite(http_request)

\* await loop.start_tls(...) returns or raises; on success the HTTP request
\* is built and written with ssl_transport.write, and _read_http_response
\* awaits the first line.
EsTlsHandshake(c) ==
    LET t == eTun[c]
        r == eReq[c]
        v == ValidateRequest(r)
        verified == TunnelReadable(t) /\ TunnelItem(t).k = "shello"
                    /\ TunnelItem(t).cert = "trusted"
        http_request == _build_http_request(r.method, "/", r.headers, r.body, v.host)
    IN
    /\ epc[c] = "tls_handshake"
    /\ TunnelReadable(t) \/ TunnelEof(t)
    /\ esRd' = [esRd EXCEPT ![t] = IF TunnelReadable(t) THEN @ + 1 ELSE @]
    /\ IF verified
       THEN /\ TunnelSend(t, WriteHttpRequest(http_request))
            /\ epc' = [epc EXCEPT ![c] = "http_read"]
            /\ UNCHANGED <<eReq, eResp, eTun, ctlOut, answers, encPeer>>
       ELSE /\ Return(c, r, ConnectionFailed("Connection failed"), t)
            /\ encPeer' = [encPeer EXCEPT ![t] = "closed"]
            /\ UNCHANGED <<e2h, encSent>>
    /\ UNCHANGED <<eWant, ctlW, ctlIn, clients, reqsRead, ctlPeer, ctlSent, nextReq, rmRd>>
    /\ UNCHANGED <<hpc, hWant, hOpen, fe, ft, encW, tgtW, r2h, h2e, h2r, encRead, tgtRead>>
    /\ UNCHANGED <<tgtPeer, tgtSent, events>>
    /\ UNCHANGED restVars

\* The handshake does not complete within asyncio's default
\* ssl_handshake_timeout (start_tls is called without one): start_tls closes
\* the transport and raises, and the inner except of process_request returns
\* the 503 envelope.  Only a server that took the ClientHello and stays
\* silent lets the time run out.
EsTlsHandshakeTimeout(c) ==
    LET t == eTun[c] IN
    /\ epc[c] = "tls_handshake"
    /\ ~TunnelReadable(t) /\ ~TunnelEof(t)
    /\ rmRd[t] > 0 /\ tgtSent[t] = <<>>
    /\ Return(c, eReq[c], ConnectionFailed("Connection failed"), t)
    /\ encPeer' = [encPeer EXCEPT ![t] = "closed"]
    /\ UNCHANGED <<eWant, ctlW, ctlIn, clients, esRd, reqsRead, ctlPeer, ctlSent, nextReq, rmRd>>
    /\ UNCHANGED relayVars
    /\ UNCHANGED <<tgtPeer, encSent, tgtSent, events>>
    /\ UNCHANGED restVars

\* response_data = await self._read_http_response(ssl_reader), then
\* ssl_transport.close(), tunnel_writer.close(), await wait_closed()
EsReadHttpResponse(c) ==
    LET t == eTun[c]
        response == IF TunnelReadable(t) /\ TunnelItem(t).k = "tls"
                    THEN _read_http_response(TunnelItem(t).sealed)
                    ELSE _read_http_response(<<>>)
    IN
    /\ epc[c] = "http_read"
    /\ TunnelReadable(t) \/ TunnelEof(t)
    /\ esRd' = [esRd EXCEPT ![t] = IF TunnelReadable(t) THEN @ + 1 ELSE @]
    /\ eResp' = [eResp EXCEPT ![c] = response]
    /\ encPeer' = [encPeer EXCEPT ![t] = "closed"]
    /\ epc' = [epc EXCEPT ![c] = "tun_wait_closed"]
    /\ UNCHANGED <<eWant, eReq, eTun, ctlW, ctlIn, ctlOut, clients, reqsRead, answers,
                   ctlPeer, ctlSent, nextReq, rmRd>>
    /\ UNCHANGED relayVars
    /\ UNCHANGED <<tgtPeer, encSent, tgtSent, events>>
    /\ UNCHANGED restVars

\* wait_closed() returns; process_request returns response_data
EsTunnelWaitClosed(c) ==
    /\ epc[c] = "tun_wait_closed"
    /\ Return(c, eReq[c], eResp[c], eTun[c])
    /\ UNCHANGED <<eWant, ctlW, ctlIn, clients, esRd, reqsRead, ctlPeer, ctlSent, nextReq, rmRd>>
    /\ UNCHANGED <<relayVars, peerVars>>
    /\ UNCHANGED restVars

handle_client(c) ==
    \/ EsReadLength(c)
    \/ EsReadPayload(c)
    \/ EsSendDrain(c)

process_request(c) ==
    \/ EsTunnelConnect(c)
    \/ EsTunnelReadLength(c)
    \/ EsTunnelReadPayload(c)
    \/ EsTlsHandshake(c)
    \/ EsTlsHandshakeTimeout(c)
    \/ EsReadHttpResponse(c)
    \/ EsTunnelWaitClosed(c)

(***************************************************************************)
(* The remote HTTPS server behind a tunnel.                                *)
(***************************************************************************)
RemoteReadable(t) == tgtPeer[t] = "open" /\ rmRd[t] < Len(h2r[t])
RemoteItem(t) == h2r[t][rmRd[t] + 1]

RemoteSend(t, item) ==
    /\ r2h' = [r2h EXCEPT ![t] = Deliver(tgtW[t], r2h[t], item)]
    /\ tgtSent' = [tgtSent EXCEPT ![t] = Append(tgtSent[t], item)]

\* The server answers the ClientHello with its certificate.
RemoteServerHello(t) ==
    /\ RemoteReadable(t)
    /\ RemoteItem(t).k = "hello"
    /\ rmRd' = [rmRd EXCEPT ![t] = @ + 1]
    /\ RemoteSend(t, ServerHello(CertOf(hOpen[t].host)))
    /\ UNCHANGED <<epc, eWant, eReq, eResp, eTun, ctlW, ctlIn, ctlOut, clients, esRd,
                   reqsRead, answers, ctlPeer, ctlSent, nextReq>>
    /\ UNCHANGED <<hpc, hWant, hOpen, fe, ft, encW, tgtW, e2h, h2e, h2r, encRead, tgtRead>>
    /\ UNCHANGED <<encPeer, tgtPeer, encSent, events>>
    /\ UNCHANGED restVars

\* The server takes the ClientHello and never answers it.
RemoteStaysSilent(t) ==
    /\ RemoteReadable(t)
    /\ RemoteItem(t).k = "hello"
    /\ rmRd' = [rmRd EXCEPT ![t] = @ + 1]
    /\ UNCHANGED <<epc, eWant, eReq, eResp, eTun, ctlW, ctlIn, ctlOut, clients, esRd,
                   reqsRead, answers, ctlPeer, ctlSent, nextReq>>
    /\ UNCHANGED relayVars
    /\ UNCHANGED <<encPeer, tgtPeer, encSent, tgtSent, events>>
    /\ UNCHANGED restVars

\* The server unseals the request, answers it in a sealed record and closes
\* (the request said Connection: close).
RemoteServeRequest(t) ==
    /\ RemoteReadable(t)
    /\ RemoteItem(t).k = "tls"
    /\ rmRd' = [rmRd EXCEPT ![t] = @ + 1]
    /\ \E p \in HttpResponses : RemoteSend(t, TlsWrite(p))
    /\ tgtPeer' = [tgtPeer EXCEPT ![t] = "closed"]
    /\ UNCHANGED <<epc, eWant, eReq, eResp, eTun, ctlW, ctlIn, ctlOut, clients, esRd,
                   reqsRead, answers, ctlPeer, ctlSent, nextReq>>
    /\ UNCHANGED <<hpc, hWant, hOpen, fe, ft, encW, tgtW, e2h, h2e, h2r, encRead, tgtRead>>
    /\ UNCHANGED <<encPeer, encSent, events>>
    /\ UNCHANGED restVars

(***************************************************************************)
(* The peer of a control connection: any client of the sidecar's port.     *)
(* An honest one is the VSockClient of the ingress proxy.                  *)
(***************************************************************************)
\* Request frames among those sent on connection c.
RequestsSent(c) ==
    Len(SelectSeq(ctlSent[c], LAMBDA f : f.msg \notin {BadJson, NotAnObject}))

CtlSend(c, f) ==
    /\ ctlIn' = [ctlIn EXCEPT ![c] = Deliver(ctlW[c], ctlIn[c], f)]
    /\ ctlSent' = [ctlSent EXCEPT ![c] = Append(ctlSent[c], f)]

CtlConnect(c) ==
    /\ ctlPeer[c] = "none"
    /\ ctlPeer' = [ctlPeer EXCEPT ![c] = "open"]
    /\ UNCHANGED <<epc, eWant, eReq, eResp, eTun, ctlW, ctlIn, ctlOut, clients, esRd,
                   reqsRead, answers, ctlSent, nextReq, rmRd>>
    /\ UNCHANGED <<relayVars, peerVars>>
    /\ UNCHANGED restVars

\* A request envelope is framed and sent.  id numbers the requests (and
\* names the tunnel connection the request will use); early records that the
\* request was sent while an earlier one on the connection was unanswered.
\* Both are ghost fields.
CtlSendRequest(c) ==
    /\ ctlPeer[c] = "open"
    /\ nextReq < MaxTunnelConns
    /\ nextReq' = nextReq + 1
    /\ \E r \in ClientRequests :
         CtlSend(c, Frame(EnclaveRequest(r.method, r.url, <<>>, r.body)
                          @@ [id |-> nextReq + 1,
                              early |-> RequestsSent(c) > Len(ctlOut[c])]))
    /\ UNCHANGED <<epc, eWant, eReq, eResp, eTun, ctlW, ctlOut, clients, esRd,
                   reqsRead, answers, ctlPeer, rmRd>>
    /\ UNCHANGED <<relayVars, peerVars>>
    /\ UNCHANGED restVars

\* A frame that is no request: an oversize length prefix, no JSON, or JSON
\* that is no object.
CtlSendBadFrame(c) ==
    /\ ctlPeer[c] = "open"
    /\ events < MaxCtlEvents
    /\ events' = events + 1
    /\ \E f \in {OversizeFrame, GarbageFrame, ArrayFrame} : CtlSend(c, f)
    /\ UNCHANGED <<epc, eWant, eReq, eResp, eTun, ctlW, ctlOut, clients, esRd,
                   reqsRead, answers, ctlPeer, nextReq, rmRd>>
    /\ UNCHANGED relayVars
    /\ UNCHANGED <<encPeer, tgtPeer, encSent, tgtSent>>
    /\ UNCHANGED restVars

CtlHalfClose(c) ==
    /\ ctlPeer[c] = "open"
    /\ events < MaxCtlEvents
    /\ events' = events + 1
    /\ ctlPeer' = [ctlPeer EXCEPT ![c] = "wr_closed"]
    /\ UNCHANGED <<epc, eWant, eReq, eResp, eTun, ctlW, ctlIn, ctlOut, clients, esRd,
                   reqsRead, answers, ctlSent, nextReq, rmRd>>
    /\ UNCHANGED relayVars
    /\ UNCHANGED <<encPeer, tgtPeer, encSent, tgtSent>>
    /\ UNCHANGED restVars

CtlAbort(c) ==
    /\ ctlPeer[c] \in {"open", "wr_closed"}
    /\ events < MaxCtlEvents
    /\ events' = events + 1
    /\ ctlPeer' = [ctlPeer EXCEPT ![c] = "aborted"]
    /\ ctlW' = [ctlW EXCEPT ![c] = IF ctlW[c] = "open" THEN "lost" ELSE ctlW[c]]
    /\ UNCHANGED <<epc, eWant, eReq, eResp, eTun, ctlIn, ctlOut, clients, esRd,
                   reqsRead, answers, ctlSent, nextReq, rmRd>>
    /\ UNCHANGED relayVars
    /\ UNCHANGED <<encPeer, tgtPeer, encSent, tgtSent>>
    /\ UNCHANGED restVars

(***************************************************************************)
(* The ingress proxy: ProxyHandler and its VSockClient.  The HTTP server   *)
(* runs every client request in a handler of its own (ThreadingMixIn), and *)
(* every handler has its own VSockClient.                                  *)
(***************************************************************************)
\* The client requests tried.  target says whether the path is /health; clen
\* says whether the request has a Content-Length header and whether its
\* value is a number.
HttpRequest(target, method, url, clen, body) ==
    [target |-> target, method |-> method, url |-> url, clen |-> clen, body |-> body]

\* Stands for a body whose bytes are not UTF-8.
NotUtf8 == "<not UTF-8>"

HttpRequests ==
    { HttpRequest("health", "GET", NoUrl, "absent", "") }
    \cup { HttpRequest("proxy", "GET", u, "absent", "") :
             u \in { Url("https", "example.test", ""),
                     Url("https", "unreachable.test", ""),
                     Url("https", "selfsigned.test", ""),
                     Url("http", "example.test", ""),
                     Url("", "", "") } }
    \cup { HttpRequest("proxy", "POST", Url("https", "example.test", ""), "valid", "B1"),
           HttpRequest("proxy", "POST", Url("https", "example.test", ""), "invalid", "B1"),
           HttpRequest("proxy", "POST", Url("https", "example.test", ""), "valid", NotUtf8) }

\* dict(self.headers), as far as the model follows it.
HeadersOf(r) ==
    IF r.clen = "absent" THEN <<>> ELSE <<<<"Content-Length", ToString(Utf8Len(r.body))>>>>

\* _send_text_response(status_code, message)
TextResponse(status_code, message) ==
    [status |-> status_code,
     headers |-> << <<"Content-Type", "text/plain">>,
                    <<"Content-Length", ToString(Utf8Len(message))>> >>,
     body |-> message]

\* str.lower() of an ASCII text.
LowerChar(ch) ==
    CASE ch = "A" -> "a" [] ch = "B" -> "b" [] ch = "C" -> "c" [] ch = "D" -> "d"
      [] ch = "E" -> "e" [] ch = "F" -> "f" [] ch = "G" -> "g" [] ch = "H" -> "h"
      [] ch = "I" -> "i" [] ch = "J" -> "j" [] ch = "K" -> "k" [] ch = "L" -> "l"
      [] ch = "M" -> "m" [] ch = "N" -> "n" [] ch = "O" -> "o" [] ch = "P" -> "p"
      [] ch = "Q" -> "q" [] ch = "R" -> "r" [] ch = "S" -> "s" [] ch = "T" -> "t"
      [] ch = "U" -> "u" [] ch = "V" -> "v" [] ch = "W" -> "w" [] ch = "X" -> "x"
      [] ch = "Y" -> "y" [] ch = "Z" -> "z"
      [] OTHER -> ch
RECURSIVE Lower(_)
Lower(text) ==
    IF text = "" THEN ""
    ELSE LowerChar(SubSeq(text, 1, 1)) \o Lower(SubSeq(text, 2, Len(text)))

\* headers.get(name, default) on the dict of the envelope's headers.
HeaderGet(headers, name, default) ==
    LET named == SelectSeq(headers, LAMBDA hd : hd[1] = name)
    IN  IF named = <<>> THEN default ELSE named[Len(named)][2]

\* _send_success_response(response): send_header for every header of the
\* envelope whose lower-cased name is not content-length or connection,
\* then for Content-Length and for Content-Type; then the body.
SuccessResponse(response) ==
    [status |-> response.status,
     headers |-> SelectSeq(response.headers,
                           LAMBDA hd : Lower(hd[1]) \notin {"content-length", "connection"})
                 \o << <<"Content-Length", ToString(Utf8Len(response.body))>>,
                       <<"Content-Type",
                         HeaderGet(response.headers, "Content-Type", "text/plain")>> >>,
     body |-> response.body]

\* What _handle_request writes for the envelope _send_with_retry returned.
ResponseFor(response) ==
    IF "success" \in DOMAIN response /\ response.success
    THEN SuccessResponse(response)
    ELSE TextResponse(IF "status" \in DOMAIN response THEN response.status ELSE 500,
                      IF "error" \in DOMAIN response THEN response.error
                      ELSE "Unknown error")

Log(h, event, value) == pLog' = [pLog EXCEPT ![h] = Append(@, [e |-> event, v |-> value])]

\* The handler writes an HTTP response and returns.
Reply(h, response) ==
    /\ httpOut' = [httpOut EXCEPT ![h] = Append(@, response)]
    /\ ppc' = [ppc EXCEPT ![h] = "done"]

\* The sidecar's variables that a client of its port does not touch.
sidecarOwnVars == <<epc, eWant, eReq, eResp, eTun, ctlW, ctlOut, clients, esRd,
                    reqsRead, answers, rmRd>>
linkVars == <<ctlIn, ctlPeer, ctlSent, nextReq>>

\* A client connects to the HTTP port and sends a request.  Every request
\* may need a control connection and a tunnel connection, and one more for
\* each failure of a control connection.  has_loop says whether the thread
\* that runs the handler has a current event loop.
HttpAccept(h) ==
    /\ ppc[h] = "idle"
    /\ \A g \in Handlers : g < h => ppc[g] # "idle"
    /\ Cardinality({g \in Handlers : ppc[g] # "idle"}) + 1 + MaxCtlEvents <= MaxTunnelConns
    /\ \E r \in HttpRequests, loop \in BOOLEAN :
         pReq' = [pReq EXCEPT ![h] = r @@ [has_loop |-> loop]]
    /\ ppc' = [ppc EXCEPT ![h] = "handle"]
    /\ pBefore' = [pBefore EXCEPT ![h] = clients]
    /\ UNCHANGED <<attempt, pConn, pRd, pWant, httpOut, pLog, nextConn>>
    /\ UNCHANGED <<relayVars, peerVars, sidecarVars, codecVars>>

\* _handle_request up to the call of _send_with_retry or of
\* _handle_health_check.  int() of a Content-Length that is no number raises
\* ValueError and decode('utf-8') of a body that is not UTF-8 raises
\* UnicodeDecodeError, which the except answers with 500.
HipHandle(h) ==
    /\ ppc[h] = "handle"
    /\ IF pReq[h].target = "health"
       THEN /\ ppc' = [ppc EXCEPT ![h] = "health_connect"]
            /\ UNCHANGED httpOut
       ELSE IF pReq[h].clen = "invalid" \/ (pReq[h].clen = "valid" /\ pReq[h].body = NotUtf8)
       THEN Reply(h, TextResponse(500, "Internal proxy error"))
       ELSE /\ ppc' = [ppc EXCEPT ![h] = "loop"]
            /\ UNCHANGED httpOut
    /\ UNCHANGED <<pReq, attempt, pConn, pRd, pWant, pLog, pBefore, nextConn>>
    /\ UNCHANGED <<relayVars, peerVars, sidecarVars, codecVars>>

\* The head of the loop of _send_with_retry, up to the first await of
\* send_request.  asyncio.get_event_loop() raises RuntimeError in a thread
\* that has no event loop; the except logs it and sleeps unless the attempt
\* was the last.  After the last attempt _send_with_retry returns None and
\* _handle_request answers 503.
HipLoop(h) ==
    /\ ppc[h] = "loop"
    /\ IF attempt[h] = MAX_RETRIES
       THEN /\ Reply(h, TextResponse(503, "Service unavailable: Unable to connect to enclave"))
            /\ Log(h, "exhausted", attempt[h])
            /\ UNCHANGED attempt
       ELSE   IF ~pReq[h].has_loop
              THEN /\ Log(h, "loop_error", attempt[h])
                   /\ IF attempt[h] < MAX_RETRIES - 1
                      THEN /\ ppc' = [ppc EXCEPT ![h] = "sleep"]
                           /\ UNCHANGED attempt
                      ELSE /\ attempt' = [attempt EXCEPT ![h] = @ + 1]
                           /\ UNCHANGED ppc
                   /\ UNCHANGED httpOut
              ELSE /\ Log(h, "attempt", attempt[h])
                   /\ ppc' = [ppc EXCEPT ![h] = IF pConn[h] = 0 THEN "connect" ELSE "write"]
                   /\ UNCHANGED <<attempt, httpOut>>
    /\ UNCHANGED <<pReq, pConn, pRd, pWant, pBefore, nextConn>>
    /\ UNCHANGED <<relayVars, peerVars, sidecarVars, codecVars>>

\* time.sleep(self.config.RETRY_DELAY), then the next iteration.
HipSleep(h) ==
    /\ ppc[h] = "sleep"
    /\ Log(h, "sleep", attempt[h])
    /\ attempt' = [attempt EXCEPT ![h] = @ + 1]
    /\ ppc' = [ppc EXCEPT ![h] = "loop"]
    /\ UNCHANGED <<pReq, pConn, pRd, pWant, httpOut, pBefore, nextConn>>
    /\ UNCHANGED <<relayVars, peerVars, sidecarVars, codecVars>>

\* A connect that hands every handler the one connection of a shared client.
ConnectedShared(h, c) ==
    /\ nextConn' = c
    /\ ctlPeer' = [ctlPeer EXCEPT ![1] = "open"]
    /\ pConn' = [pConn EXCEPT ![h] = 1]
    /\ pRd' = [pRd EXCEPT ![h] = 0]

\* VSockClient.connect: the connection is made or refused.
Connected(h, c) ==
    /\ nextConn' = c
    /\ ctlPeer' = [ctlPeer EXCEPT ![c] = "open"]
    /\ pConn' = [pConn EXCEPT ![h] = c]
    /\ pRd' = [pRd EXCEPT ![h] = 0]

\* if not await self.connect(): return None
HipConnect(h) ==
    /\ ppc[h] = "connect"
    /\ \E ok \in BOOLEAN :
         IF ok /\ nextConn + 1 \in CtlIds
         THEN /\ Connected(h, nextConn + 1)
              /\ Log(h, "connected", nextConn + 1)
              /\ ppc' = [ppc EXCEPT ![h] = "write"]
              /\ UNCHANGED attempt
         ELSE /\ Log(h, "connect_failed", attempt[h])
              /\ attempt' = [attempt EXCEPT ![h] = @ + 1]
              /\ ppc' = [ppc EXCEPT ![h] = "loop"]
              /\ UNCHANGED <<pConn, pRd, nextConn, ctlPeer>>
    /\ UNCHANGED <<pReq, pWant, httpOut, pBefore>>
    /\ UNCHANGED <<ctlIn, ctlSent, nextReq>>
    /\ UNCHANGED <<relayVars, peerVars, sidecarOwnVars, codecVars>>

\* The request is serialized and written: length prefix, then the payload.
\* id and early are the ghost fields of the control peer's requests.  A
\* write on a transport that lost its connection is dropped.
HipWrite(h) ==
    LET c == pConn[h]
        r == pReq[h]
        f == Frame(EnclaveRequest(r.method, r.url, HeadersOf(r), r.body)
                   @@ [id |-> nextReq + 1, early |-> FALSE])
    IN
    /\ ppc[h] = "write"
    /\ IF ctlPeer[c] = "aborted"
       THEN /\ Log(h, "stale_write", c)
            /\ UNCHANGED <<nextReq, ctlIn, ctlSent>>
       ELSE /\ nextReq < MaxTunnelConns
            /\ nextReq' = nextReq + 1
            /\ ctlIn' = [ctlIn EXCEPT ![c] = Deliver(ctlW[c], ctlIn[c], f)]
            /\ ctlSent' = [ctlSent EXCEPT ![c] = Append(ctlSent[c], f)]
            /\ Log(h, "sent", c)
    /\ ppc' = [ppc EXCEPT ![h] = "drain"]
    /\ UNCHANGED <<pReq, attempt, pConn, pRd, pWant, httpOut, pBefore, nextConn>>
    /\ UNCHANGED ctlPeer
    /\ UNCHANGED <<relayVars, peerVars, sidecarOwnVars, codecVars>>

\* await self.writer.drain(): raises when the connection was reset.
HipDrain(h) ==
    /\ ppc[h] = "drain"
    /\ ppc' = [ppc EXCEPT ![h] = IF ctlPeer[pConn[h]] = "aborted" THEN "disconnect"
                                 ELSE "read_len"]
    /\ UNCHANGED <<pReq, attempt, pConn, pRd, pWant, httpOut, pLog, pBefore, nextConn>>
    /\ UNCHANGED <<relayVars, peerVars, sidecarVars, codecVars>>

\* The next frame the sidecar wrote is there to be read.
ResponseReadable(h) ==
    ctlPeer[pConn[h]] # "aborted" /\ pRd[h] < Len(ctlOut[pConn[h]])
\* readexactly raises: the connection was reset, or it ended (the sidecar
\* closed it) before the bytes asked for.
ResponseReadFails(h) ==
    \/ ctlPeer[pConn[h]] = "aborted"
    \/ pRd[h] = Len(ctlOut[pConn[h]]) /\ ctlW[pConn[h]] = "closed"

\* length_data = await self.reader.readexactly(4)
HipReadLength(h) ==
    /\ ppc[h] = "read_len"
    /\ ResponseReadable(h) \/ ResponseReadFails(h)
    /\ IF ResponseReadable(h)
       THEN /\ pWant' = [pWant EXCEPT ![h] = ctlOut[pConn[h]][pRd[h] + 1].len]
            /\ ppc' = [ppc EXCEPT ![h] = "read_payload"]
       ELSE /\ ppc' = [ppc EXCEPT ![h] = "disconnect"]
            /\ UNCHANGED pWant
    /\ UNCHANGED <<pReq, attempt, pConn, pRd, httpOut, pLog, pBefore, nextConn>>
    /\ UNCHANGED <<relayVars, peerVars, sidecarVars, codecVars>>

\* response_data = await self.reader.readexactly(response_length);
\* json.loads; send_request returns the envelope, _send_with_retry returns
\* it, and _handle_request writes the HTTP response for it.
HipReadPayload(h) ==
    LET c == pConn[h]
        f == ctlOut[c][pRd[h] + 1]
        response == IF f.size = pWant[h] THEN f.msg ELSE BadJson
    IN
    /\ ppc[h] = "read_payload"
    /\ ResponseReadable(h) \/ ResponseReadFails(h)
    /\ IF ResponseReadable(h) /\ f.size >= pWant[h] /\ response # BadJson
       THEN /\ pRd' = [pRd EXCEPT ![h] = @ + 1]
            /\ Log(h, "envelope", response)
            /\ Reply(h, ResponseFor(response))
       ELSE /\ ppc' = [ppc EXCEPT ![h] = "disconnect"]
            /\ UNCHANGED <<pRd, pLog, httpOut>>
    /\ UNCHANGED <<pReq, attempt, pConn, pWant, pBefore, nextConn>>
    /\ UNCHANGED <<relayVars, peerVars, sidecarVars, codecVars>>

\* A disconnect that forgets the writer without closing it.
disconnect_forgets(h) ==
    /\ pConn' = [pConn EXCEPT ![h] = 0]
    /\ UNCHANGED ctlPeer

\* VSockClient.disconnect: writer.close(); await writer.wait_closed();
\* writer and reader become None.
disconnect(h) ==
    /\ ctlPeer' = [ctlPeer EXCEPT ![pConn[h]] = "closed"]
    /\ pConn' = [pConn EXCEPT ![h] = 0]

\* await self.writer.wait_closed() in disconnect raises the error that ended
\* the connection: after a reset the transport's close waiter holds the
\* ConnectionResetError.
WaitClosedRaises(h) == ctlPeer[pConn[h]] = "aborted"

\* except Exception: await self.disconnect(); return None -- and the loop of
\* _send_with_retry goes on with the next attempt.  When wait_closed raises,
\* disconnect ends before it sets writer and reader to None, the exception
\* leaves send_request, and the except of _send_with_retry sleeps unless
\* the attempt was the last.
HipDisconnect(h) ==
    /\ ppc[h] = "disconnect"
    /\ Log(h, "io_error", pConn[h])
    /\ IF WaitClosedRaises(h)
       THEN /\ UNCHANGED <<pConn, ctlPeer>>
            /\ IF attempt[h] < MAX_RETRIES - 1
               THEN /\ ppc' = [ppc EXCEPT ![h] = "sleep"]
                    /\ UNCHANGED attempt
               ELSE /\ attempt' = [attempt EXCEPT ![h] = @ + 1]
                    /\ ppc' = [ppc EXCEPT ![h] = "loop"]
       ELSE /\ disconnect(h)
            /\ attempt' = [attempt EXCEPT ![h] = @ + 1]
            /\ ppc' = [ppc EXCEPT ![h] = "loop"]
    /\ UNCHANGED <<pReq, pRd, pWant, httpOut, pBefore, nextConn>>
    /\ UNCHANGED <<ctlIn, ctlSent, nextReq>>
    /\ UNCHANGED <<relayVars, peerVars, sidecarOwnVars, codecVars>>

\* _handle_health_check: connected = run_until_complete(vsock_client.connect())
HipHealthConnect(h) ==
    /\ ppc[h] = "health_connect"
    /\ \E ok \in BOOLEAN :
         IF ok /\ nextConn + 1 \in CtlIds
         THEN /\ Connected(h, nextConn + 1)
              /\ Log(h, "connected", nextConn + 1)
              /\ ppc' = [ppc EXCEPT ![h] = "health_disconnect"]
              /\ UNCHANGED httpOut
         ELSE /\ Log(h, "connect_failed", 0)
              /\ Reply(h, TextResponse(503, "Unhealthy: Cannot connect to enclave"))
              /\ UNCHANGED <<pConn, pRd, nextConn, ctlPeer>>
    /\ UNCHANGED <<pReq, attempt, pWant, pBefore>>
    /\ UNCHANGED <<ctlIn, ctlSent, nextReq>>
    /\ UNCHANGED <<relayVars, peerVars, sidecarOwnVars, codecVars>>

\* A health check that reports the sidecar unreachable after it connected.
HipHealthDisconnectUnhealthy(h) ==
    /\ ppc[h] = "health_disconnect"
    /\ Log(h, "closed", pConn[h])
    /\ disconnect(h)
    /\ Reply(h, TextResponse(503, "Unhealthy: Cannot connect to enclave"))
    /\ UNCHANGED <<pReq, attempt, pRd, pWant, pBefore, nextConn>>
    /\ UNCHANGED <<ctlIn, ctlSent, nextReq>>
    /\ UNCHANGED <<relayVars, peerVars, sidecarOwnVars, codecVars>>

\* run_until_complete(vsock_client.disconnect()), then the 200 response.
HipHealthDisconnect(h) ==
    /\ ppc[h] = "health_disconnect"
    /\ Log(h, "closed", pConn[h])
    /\ disconnect(h)
    /\ Reply(h, TextResponse(200, "OK: Proxy and enclave are healthy"))
    /\ UNCHANGED <<pReq, attempt, pRd, pWant, pBefore, nextConn>>
    /\ UNCHANGED <<ctlIn, ctlSent, nextReq>>
    /\ UNCHANGED <<relayVars, peerVars, sidecarOwnVars, codecVars>>

_send_with_retry(h) ==
    \/ HipLoop(h)
    \/ HipSleep(h)

send_request(h) ==
    \/ HipConnect(h)
    \/ HipWrite(h)
    \/ HipDrain(h)
    \/ HipReadLength(h)
    \/ HipReadPayload(h)
    \/ HipDisconnect(h)

_handle_health_check(h) ==
    \/ HipHealthConnect(h)
    \/ HipHealthDisconnect(h)

(***************************************************************************)
(* The HTTP codecs on their own: one request is serialized as the sidecar  *)
(* serializes it, one response of a server is read as the sidecar reads    *)
(* it, or one Success envelope is written out as the proxy writes it.      *)
(***************************************************************************)
\* The headers a client's request can bring (dict(self.headers) of the
\* proxy handler, passed on in the envelope).
ClientHeaders ==
    { <<>>,
      << <<"Host", "proxy.local:8080">> >>,
      << <<"Connection", "keep-alive">> >>,
      << <<"connection", "keep-alive">> >>,
      << <<"Content-Length", "2">> >>,
      << <<"Accept", "*/*">> >> }

HttpInput(kind, method, url, path, headers, body, lines, status) ==
    [kind |-> kind, method |-> method, url |-> url, path |-> path, headers |-> headers,
     body |-> body, lines |-> lines, status |-> status]

BuildInputs ==
    { HttpInput("build", m, u, p, hs, b, <<>>, 0) :
        m \in {"GET", "POST"},
        u \in {Url("https", "example.test", ""), Url("https", "example.test", "8443")},
        p \in {"/", "/a?b=1"},
        hs \in ClientHeaders,
        b \in {"", "B1"} }

\* The body of a response in chunked transfer coding: for every chunk its
\* size, CRLF, the chunk, CRLF; then the last chunk "0" and the final CRLF.
RECURSIVE Chunked(_)
Chunked(chunks) ==
    IF chunks = <<>> THEN "0\r\n\r\n"
    ELSE ToString(Len(Head(chunks))) \o "\r\n" \o Head(chunks) \o "\r\n"
         \o Chunked(Tail(chunks))

RECURSIVE Payload(_)
Payload(chunks) == IF chunks = <<>> THEN "" ELSE Head(chunks) \o Payload(Tail(chunks))

ChunkLists == { <<"R1">>, <<"R1", "abc">> }

\* The response of a server that sends these headers and then this stream
\* of bytes and closes.
HttpResponse(headers, stream) ==
    << [l |-> "status", proto |-> "HTTP/1.1", code |-> 200] >>
    \o HeaderLines(headers)
    \o << [l |-> "blank"] >>
    \o (IF stream = "" THEN <<>> ELSE << [l |-> "body", text |-> stream] >>)

ReadInputs ==
    { HttpInput("read", "", NoUrl, "", <<>>, "", lines, 0) : lines \in HttpResponses }
    \cup { HttpInput("read", "", NoUrl, "", <<>>, "",
                     HttpResponse(<< <<"Content-Length", n>> >>, "R1abc"), 0) :
             n \in {"0", "2", "5", "9", "-1", "abc"} }
    \cup { HttpInput("read", "", NoUrl, "", <<>>, "", HttpResponse(hs, "R1abc"), 0) :
             hs \in { <<>>, << <<"content-length", "2">> >> } }
    \cup { HttpInput("read", "", NoUrl, "", <<>>, Payload(chunks),
                     HttpResponse(<< <<"Transfer-Encoding", "chunked">> >>, Chunked(chunks)),
                     0) :
             chunks \in ChunkLists }

EnvelopeHeaders ==
    { <<>>,
      << <<"Content-Type", "application/json">> >>,
      << <<"content-type", "application/json">> >>,
      << <<"Content-Length", "99">> >>,
      << <<"CONNECTION", "close">> >>,
      << <<"X-Served-By", "origin">> >>,
      << <<"X-Served-By", "origin">>, <<"Content-Type", "application/json">> >> }

SuccessInputs ==
    { HttpInput("success", "", NoUrl, "", hs, b, <<>>, st) :
        hs \in EnvelopeHeaders, b \in {"", "R1", "R1abc"}, st \in {200, 404} }

HttpInputs == BuildInputs \cup ReadInputs \cup SuccessInputs

InitHttpCodec ==
    /\ cpc = "ready"
    /\ cMsg \in HttpInputs
    /\ cWire = ""
    /\ cWant = 0
    /\ cGot = NoMsg

\* process_request: host = parsed_url.hostname; http_request =
\* self._build_http_request(method, path, headers, body, host);
\* ssl_transport.write(http_request.encode('utf-8'))
BuildRequest ==
    /\ cpc = "ready"
    /\ cMsg.kind = "build"
    /\ cWire' = JoinCrlf(_build_http_request(cMsg.method, cMsg.path, cMsg.headers,
                                             cMsg.body, cMsg.url.host))
    /\ cpc' = "done"
    /\ UNCHANGED <<cMsg, cWant, cGot>>
    /\ UNCHANGED <<relayVars, peerVars, sidecarVars, proxyVars>>

\* response_data = await self._read_http_response(ssl_reader)
ReadResponse ==
    /\ cpc = "ready"
    /\ cMsg.kind = "read"
    /\ cGot' = _read_http_response(cMsg.lines)
    /\ cpc' = "done"
    /\ UNCHANGED <<cMsg, cWire, cWant>>
    /\ UNCHANGED <<relayVars, peerVars, sidecarVars, proxyVars>>

\* self._send_success_response(response)
SendSuccess ==
    /\ cpc = "ready"
    /\ cMsg.kind = "success"
    /\ cGot' = SuccessResponse(Success(cMsg.status, cMsg.headers, cMsg.body))
    /\ cpc' = "done"
    /\ UNCHANGED <<cMsg, cWire, cWant>>
    /\ UNCHANGED <<relayVars, peerVars, sidecarVars, proxyVars>>

NextHttp == BuildRequest \/ ReadResponse \/ SendSuccess

InitHttp == InitRelay /\ InitSidecar /\ InitProxy /\ InitHttpCodec

SpecHttp == InitHttp /\ [][NextHttp]_vars

(***************************************************************************)
(* The whole system: clients, the ingress proxy, the sidecar, the relay    *)
(* and remote servers.  A control connection can fail (CtlAbort).          *)
(***************************************************************************)
\* A control connection of the proxy fails (the connection is reset), while
\* the sidecar is not processing a request on it and no tunnel is active
\* (the relay's handlers share no state with the control connections).
ControlLinkFails(c) ==
    /\ epc[c] \in {"unaccepted", "read_len", "read_payload", "send_drain"}
    /\ \A t \in Tunnels : hpc[t] \in {"unaccepted", "closed"} /\ encPeer[t] \in {"none", "closed"}
    /\ CtlAbort(c)

\* The sidecar's service is stopped while handle_client waits for a request:
\* the task is cancelled at its await, its finally closes the connection,
\* and the proxy reads the end of the stream.
EsCancelled(c) ==
    /\ epc[c] = "read_len"
    /\ ctlIn[c] = <<>>
    /\ ctlPeer[c] = "open"
    /\ events < MaxCtlEvents
    /\ events' = events + 1
    /\ ClientGone(c)
    /\ UNCHANGED <<eWant, eReq, eResp, eTun, ctlIn, ctlOut, esRd, reqsRead, answers,
                   ctlPeer, ctlSent, nextReq, rmRd>>
    /\ UNCHANGED relayVars
    /\ UNCHANGED <<encPeer, tgtPeer, encSent, tgtSent>>
    /\ UNCHANGED restVars

NextProxy ==
    \/ \E h \in Handlers :
        \/ HttpAccept(h)
        \/ HipHandle(h)
        \/ _send_with_retry(h)
        \/ send_request(h)
        \/ _handle_health_check(h)
    \/ \E c \in CtlIds :
        \/ ControlLinkFails(c)
        \/ EsCancelled(c)
        \/ start(c)
        \/ handle_client(c)
        \/ process_request(c)
    \/ \E t \in Tunnels :
        \/ start_tunnel_server(t)
        \/ handle_tunnel_request(t)
        \/ RemoteServerHello(t)
        \/ RemoteStaysSilent(t)
        \/ RemoteServeRequest(t)

SpecProxy == Init /\ [][NextProxy]_vars

\* The steps of one HTTP handler thread, of one client handler of the
\* sidecar and of one tunnel handler of the relay.
HipStep(h) == HipHandle(h) \/ _send_with_retry(h) \/ send_request(h) \/ _handle_health_check(h)
EsStep(c) == start(c) \/ handle_client(c) \/ process_request(c)
HtrStep(t) == start_tunnel_server(t) \/ handle_tunnel_request(t)

\* Client requests arrive at any time, each in a handler thread of its own:
\* requests that the sidecar answers without a tunnel.
ConcurrentRequests ==
    { HttpRequest("proxy", "GET", Url("http", "example.test", ""), "absent", "") }

HttpAcceptConcurrent(h) ==
    /\ ppc[h] = "idle"
    /\ \E r \in ConcurrentRequests, loop \in BOOLEAN :
         pReq' = [pReq EXCEPT ![h] = r @@ [has_loop |-> loop]]
    /\ ppc' = [ppc EXCEPT ![h] = "handle"]
    /\ pBefore' = [pBefore EXCEPT ![h] = clients]
    /\ UNCHANGED <<attempt, pConn, pRd, pWant, httpOut, pLog, nextConn>>
    /\ UNCHANGED <<relayVars, peerVars, sidecarVars, codecVars>>

NextConcurrent ==
    \/ \E h \in Handlers :
        \/ HttpAcceptConcurrent(h)
        \/ HipHandle(h)
        \/ _send_with_retry(h)
        \/ send_request(h)
    \/ \E c \in CtlIds :
        \/ ControlLinkFails(c)
        \/ start(c)
        \/ handle_client(c)

SpecConcurrent == Init /\ [][NextConcurrent]_vars

\* A server that got the ClientHello answers it or is one that stays silent.
RemoteHandshake(t) == RemoteServerHello(t) \/ RemoteStaysSilent(t)

\* Threads and event loops keep running: a handler that can take a step
\* takes one, and the handshake's time runs out when the server is silent.
\* Nothing makes a client send a request, a connection fail or a remote
\* server answer an HTTP request.
SpecProxyLive ==
    /\ SpecProxy
    /\ \A h \in Handlers : WF_vars(HipStep(h))
    /\ \A c \in CtlIds : WF_vars(EsStep(c))
    /\ \A t \in Tunnels : WF_vars(HtrStep(t))
    /\ \A t \in Tunnels : WF_vars(RemoteHandshake(t))

(***************************************************************************)
(* The pipeline: control peers, the sidecar, the relay, remote servers.    *)
(***************************************************************************)
Next ==
    \/ \E c \in Conns :
        \/ CtlConnect(c)
        \/ CtlSendRequest(c)
        \/ CtlSendBadFrame(c)
        \/ CtlHalfClose(c)
        \/ CtlAbort(c)
        \/ start(c)
        \/ handle_client(c)
        \/ process_request(c)
    \/ \E t \in Tunnels :
        \/ start_tunnel_server(t)
        \/ handle_tunnel_request(t)
        \/ RemoteServerHello(t)
        \/ RemoteStaysSilent(t)
        \/ RemoteServeRequest(t)

Spec == Init /\ [][Next]_vars

(***************************************************************************)
(* Several control connections served at once: every control peer sends    *)
(* requests on a connection of its own, and the sidecar runs one           *)
(* handle_client per connection on the same event loop.                    *)
(***************************************************************************)
NextTunnels ==
    \/ \E c \in CtlIds :
        \/ CtlConnect(c)
        \/ CtlSendRequest(c)
        \/ start(c)
        \/ handle_client(c)
        \/ process_request(c)
    \/ \E t \in Tunnels :
        \/ start_tunnel_server(t)
        \/ handle_tunnel_request(t)
        \/ RemoteServerHello(t)
        \/ RemoteStaysSilent(t)
        \/ RemoteServeRequest(t)

SpecTunnels == Init /\ [][NextTunnels]_vars

(***************************************************************************)
(* Properties of the relay.                                                *)
(***************************************************************************)
\* The tunnel of connection t was established: the outbound connection exists.
Established(t) == tgtW[t] # "none"

\* Handlers between accept and close.
ActiveTunnels == {t \in Tunnels : hpc[t] \notin {"unaccepted", "closed"}}

Range(s) == {s[i] : i \in 1..Len(s)}

\* The request envelopes sent on the control connections.
RequestsOnWire ==
    UNION {{f.msg : f \in {g \in Range(ctlSent[c]) : g.msg.t = "req"}} : c \in Conns}

\* The non-empty request bodies clients sent.
SentBodies == {r.body : r \in RequestsOnWire} \ {""}

\* The body texts readable in an item of a stream by whoever holds no TLS
\* key: those of an HTTP message written as it is and those of a JSON
\* envelope; none in a sealed TLS record.
PlaintextBodies(item) ==
    IF item.k = "plain"
    THEN {ln.text : ln \in {x \in Range(item.text) : x.l = "body"}}
    ELSE IF item.k = "frame" /\ "body" \in DOMAIN item.msg
    THEN {item.msg.body}
    ELSE {}

\* Everything the relay read from or wrote to either side of tunnel t.
RelaySees(t) ==
    Range(encRead[t]) \cup Range(tgtRead[t]) \cup Range(h2e[t]) \cup Range(h2r[t])

\* C1: no item the relay reads from or writes to either side of a tunnel
\* shows a request body a client sent, and what the sidecar puts on the
\* tunnel stream is the tunnel-open frame, the TLS handshake and sealed TLS
\* records only.
C1_RelayNeverSeesBody ==
    \A t \in Tunnels :
        /\ \A item \in RelaySees(t) : PlaintextBodies(item) \cap SentBodies = {}
        /\ \A item \in Range(encSent[t]) :
              /\ item.k \in {"frame", "hello", "tls"}
              /\ item.k = "frame" => item.msg.t = "open"

\* A request with a body went through the relay to the remote server, sealed.
C1_Witness ==
    \E t \in Tunnels : \E item \in Range(h2r[t]) :
        /\ item.k = "tls"
        /\ \E ln \in Range(item.sealed) : ln.l = "body" /\ ln.text \in SentBodies

\* C2: no envelope on a control connection carries a request body or a
\* response body: the request envelopes sent have no body text and the
\* response envelopes written have none.
C2_NoBodyOnControlChannel ==
    \A c \in Conns :
        /\ \A f \in Range(ctlSent[c]) : PlaintextBodies(f) \subseteq {""}
        /\ \A f \in Range(ctlOut[c]) : PlaintextBodies(f) \subseteq {""}

\* C3: every answered request whose URL has a scheme other than https was
\* answered with status 400 and opened no tunnel connection.
C3_NonHttpsIsBadRequest ==
    \A c \in Conns : \A a \in Range(answers[c]) :
        a.req.url.scheme # "https" => a.resp.status = 400 /\ a.tun = 0

\* The response is one that process_request can return for the request.
Responds(req, resp) ==
    LET v == ValidateRequest(req) IN
    IF v.kind = "return"
    THEN resp = v.resp
    ELSE \/ resp.status \in {502, 503}
         \/ "success" \in DOMAIN resp /\ resp.success

\* C4: on every control connection the number of responses written is the
\* number of requests read or one less, and the i-th response written is the
\* answer to the i-th request read.
C4_SequentialOneToOne ==
    \A c \in Conns :
        /\ Len(ctlOut[c]) \in {Len(reqsRead[c]), Len(reqsRead[c]) - 1}
        /\ Len(answers[c]) = Len(ctlOut[c])
        /\ \A i \in 1..Len(ctlOut[c]) :
              /\ answers[c][i].req = reqsRead[c][i]
              /\ ctlOut[c][i] = Frame(answers[c][i].resp)
              /\ Responds(reqsRead[c][i], ctlOut[c][i].msg)

\* Two requests of one connection were answered, differently.
C4_Witness ==
    \E c \in Conns :
        /\ Len(ctlOut[c]) = 2
        /\ Len(reqsRead[c]) = 2
        /\ ctlOut[c][1] # ctlOut[c][2]

\* C5 as stated: a request sent before the response to the one before it was
\* written is never answered.
C5_EarlyRequestNeverAnswered ==
    \A c \in Conns : \A a \in Range(answers[c]) : ~a.req.early

\* The control peer gave the sidecar a reason to end the connection: end of
\* stream, a reset, or a frame that is no JSON envelope.
PeerEndedOrCorrupted(c) ==
    \/ ctlPeer[c] \in {"wr_closed", "aborted"}
    \/ \E f \in Range(ctlSent[c]) : f.msg \in {BadJson, NotAnObject}

\* C5, amended: a request sent early stays buffered: it is read only after
\* the responses to all requests before it were written, and the sidecar
\* closes a control connection only at end of stream, on a reset or on a
\* frame that is no JSON envelope, never because a request came early.
C5_EarlyRequestWaitsItsTurn ==
    \A c \in Conns :
        /\ \A i \in 1..Len(reqsRead[c]) :
              reqsRead[c][i].early => Len(ctlOut[c]) >= i - 1
        /\ epc[c] = "closed" => PeerEndedOrCorrupted(c)

\* A request sent early was answered, after the one before it, and the
\* connection is still open.
C5_Witness ==
    \E c \in Conns :
        /\ Len(answers[c]) = 2
        /\ answers[c][2].req.early
        /\ epc[c] # "closed"
        /\ ctlW[c] = "open"

\* C6: half-close.  While neither peer has reset the connection, a peer that
\* finished sending leaves the other direction intact: every chunk the other
\* peer has sent was read by the relay or still waits to be read, and every
\* chunk read was written to the destination.
C6_HalfCloseKeepsForwarding ==
    \A t \in Tunnels :
        /\ (Established(t) /\ encPeer[t] = "wr_closed" /\ tgtPeer[t] \in {"open", "wr_closed"})
              => /\ tgtSent[t] = tgtRead[t] \o r2h[t]
                 /\ DataOf(h2e[t]) = tgtRead[t]
        /\ (Established(t) /\ tgtPeer[t] = "wr_closed" /\ encPeer[t] \in {"open", "wr_closed"})
              => /\ DataOf(encSent[t]) = encRead[t] \o DataOf(e2h[t])
                 /\ h2r[t] = encRead[t]

\* C7: in each direction what the relay wrote is a prefix of what it read from
\* the source of that direction, and nothing crosses to the other direction.
C7_ByteOrderPreserved ==
    \A t \in Tunnels :
        /\ IsPrefix(h2r[t], encRead[t])
        /\ IsPrefix(DataOf(h2e[t]), tgtRead[t])
        /\ \A i \in 1..Len(encRead[t]) : encRead[t][i].o = "e"
        /\ \A i \in 1..Len(tgtRead[t]) : tgtRead[t][i].o = "r"

\* Two chunks were forwarded, in order, from the enclave side to the target.
C7_Witness == \E t \in Tunnels : Len(h2r[t]) >= 2 /\ h2r[t] = encRead[t]

\* C8: once the handler is past the point of the reply for a decoded
\* tunnel-open request (the enclave side still connected), exactly one reply
\* was written; it says connected exactly when the outbound connection was
\* made, and after an error reply nothing is forwarded.
C8_ExactlyOneReply ==
    \A t \in Tunnels :
        (/\ hOpen[t].t = "open"
         /\ hpc[t] \in {"drain_connected", "drain_error", "forward", "closed"}
         /\ encPeer[t] # "aborted")
        => /\ Len(FramesOf(h2e[t])) = 1
           /\ (Head(h2e[t]).msg.status = "connected") <=> Established(t)
           /\ (Head(h2e[t]).msg.status = "error") => (DataOf(h2e[t]) = <<>> /\ h2r[t] = <<>>)

\* C9: the handlers between accept and close never number more than the cap.
\* The cap is set below the number of connections the enclave side can open,
\* so that it can bind.
TunnelCap == MaxTunnelConns - 1
C9_TunnelCapRespected == Cardinality(ActiveTunnels) <= TunnelCap

\* C10: no receiver of a length-prefixed message starts to read a payload
\* whose announced length exceeds the cap.
C10_OversizeFrameRejected ==
    /\ \A t \in Tunnels : hpc[t] = "read_payload" => hWant[t] <= FrameCap
    /\ \A c \in Conns :
          epc[c] \in {"read_payload", "tun_read_payload"} => eWant[c] <= FrameCap

\* C11: the bytes a sender writes for an envelope are a 4-byte big-endian
\* length equal to the number of bytes that follow; the receiver consumes
\* exactly those bytes, never fails on them, and decodes the envelope that was
\* sent.
C11_FramingRoundTrip ==
    /\ cpc # "failed"
    /\ cpc = "sent" =>
          /\ Len(cWire) >= 4
          /\ 16777216 * cWire[1] + 65536 * cWire[2] + 256 * cWire[3] + cWire[4]
                = Len(cWire) - 4
          /\ \A i \in 1..4 : cWire[i] \in 0..255
    /\ cpc = "decoded" => cGot = cMsg /\ cWire = <<>>

\* An envelope with a string that needs escaping was framed and decoded.
C11_Witness ==
    /\ cpc = "decoded"
    /\ \E i \in 1..Len(cMsg.items) :
          /\ cMsg.items[i][2].j = "str"
          /\ {34, 233} \subseteq Range(cMsg.items[i][2].s)

\* What handler h did, restricted to the events of some kinds.
LogOf(h, kinds) == SelectSeq(pLog[h], LAMBDA x : x.e \in kinds)

\* The control connections handler h opened.
Opened(h) == {x.v : x \in Range(LogOf(h, {"connected"}))}

\* The iterations of the retry loop that handler h began.
Iterations(h) == Len(LogOf(h, {"attempt", "loop_error"}))

C13_DelayBetweenAttempts ==
    \A h \in Handlers : \A i \in 1..(Len(pLog[h]) - 1) :
        (pLog[h][i].e \in {"connect_failed", "io_error"} /\ pReq[h].target = "proxy")
           => pLog[h][i + 1].e # "attempt"

\* The request was sent to the sidecar this many times before the i-th event
\* of handler h.
SentBefore(h, i) == Len(SelectSeq(SubSeq(pLog[h], 1, i), LAMBDA x : x.e = "sent"))

\* C14: when the proxy receives a failure envelope of status 503, it has
\* sent the request MAX_RETRIES times.
C14_TunnelFailedIsRetried ==
    \A h \in Handlers : \A i \in 1..Len(pLog[h]) :
        (pLog[h][i].e = "envelope" /\ pLog[h][i].v.status = 503)
           => SentBefore(h, i) = MAX_RETRIES

\* The TLS handshake on tunnel t failed: the server's certificate is not
\* trusted.
HandshakeFailed(t) ==
    \E item \in Range(h2e[t]) : item.k = "shello" /\ item.cert = "untrusted"

\* C15: a request whose TLS handshake failed is answered by the sidecar with
\* status 502, and the proxy answers the client 502 after one attempt.
C15_HandshakeFailureIs502 ==
    /\ \A c \in CtlIds : \A a \in Range(answers[c]) :
          (a.tun # 0 /\ HandshakeFailed(a.tun)) => a.resp.status = 502
    /\ \A h \in Handlers :
          (ppc[h] = "done" /\ pReq[h].url.host = "selfsigned.test"
             /\ LogOf(h, {"envelope"}) # <<>>)
             => httpOut[h][1].status = 502 /\ SentBefore(h, Len(pLog[h])) = 1

\* The envelope is a Failure envelope for the proxy: success is false or
\* missing.
IsFailure(envelope) == ~("success" \in DOMAIN envelope /\ envelope.success)

\* C16: the HTTP response for a Failure envelope has status 503 and the
\* envelope's error text as body.
C16_FailureIs503 ==
    \A h \in Handlers : \A x \in Range(LogOf(h, {"envelope"})) :
        IsFailure(x.v) =>
            /\ ppc[h] = "done"
            /\ httpOut[h][1].status = 503
            /\ httpOut[h][1].body = x.v.error

\* C17: every response envelope the sidecar writes has the success field.
C17_SuccessFieldPresent ==
    \A c \in CtlIds : \A f \in Range(ctlOut[c]) : "success" \in DOMAIN f.msg

\* The envelopes handler h received.
EnvelopesOf(h) == {x.v : x \in Range(LogOf(h, {"envelope"}))}

\* The statuses of the responses of handler h are those of the claim: the
\* envelope's for a Success envelope, 503 when the sidecar was not reached in
\* any attempt, 500 for an error inside the handler.
StatusMapping(h) ==
    ppc[h] = "done" =>
        /\ \A envelope \in EnvelopesOf(h) :
              ~IsFailure(envelope) => httpOut[h][1].status = envelope.status
        /\ LogOf(h, {"exhausted"}) # <<>> => httpOut[h][1].status = 503
        /\ (pReq[h].target = "proxy" /\ pReq[h].clen = "invalid") => httpOut[h][1].status = 500

\* C18: every HTTP request the proxy accepts gets a response in the end,
\* never more than one, and with the status the claim gives.
C18_EveryRequestAnswered ==
    /\ [](\A h \in Handlers : Len(httpOut[h]) <= 1 /\ StatusMapping(h))
    /\ \A h \in Handlers : (ppc[h] = "handle") ~> (Len(httpOut[h]) = 1)

\* Handler h serves a health check.
IsHealthCheck(h) == ppc[h] # "idle" /\ pReq[h].target = "health"

Untouched(c) == reqsRead[c] = <<>> /\ answers[c] = <<>> /\ eTun[c] = 0 /\ ctlOut[c] = <<>>

\* C20 as the specification states it: once a health check has completed,
\* the sidecar's set of connected clients is what it was before the check,
\* the sidecar read no request and opened no tunnel, and the proxy's
\* connection is closed.
C20_HealthLeavesNoTrace ==
    \A h \in Handlers : (IsHealthCheck(h) /\ ppc[h] = "done") =>
        /\ clients = pBefore[h]
        /\ \A c \in Opened(h) : Untouched(c) /\ ctlPeer[c] = "closed"

\* C20, amended: on the connection of a health check the sidecar reads no
\* request, opens no tunnel and writes nothing; when the check has completed
\* the proxy's connection is closed; and the connection, which the sidecar
\* adds to its set of connected clients when it accepts it, leaves the set
\* again in the end, possibly after the check has completed.
C20_HealthLeavesNoLastingTrace ==
    /\ [](\A h \in Handlers : IsHealthCheck(h) =>
             \A c \in Opened(h) :
                 /\ Untouched(c)
                 /\ ppc[h] = "done" => ctlPeer[c] = "closed"
                 /\ epc[c] = "closed" => c \notin clients)
    /\ \A h \in Handlers :
          (IsHealthCheck(h) /\ ppc[h] = "done") ~> (Opened(h) \cap clients = {})

\* The health check has completed while the sidecar still has its connection
\* in the set of connected clients.
C20_Witness ==
    \E h \in Handlers :
        /\ IsHealthCheck(h) /\ ppc[h] = "done"
        /\ Opened(h) # {}
        /\ Opened(h) \subseteq clients

\* pat occurs in text; text ends with pat; text begins with pat.
TextContains(text, pat) ==
    \E i \in 1..(Len(text) - Len(pat) + 1) : SubSeq(text, i, i + Len(pat) - 1) = pat
TextEndsWith(text, pat) ==
    Len(pat) <= Len(text) /\ SubSeq(text, Len(text) - Len(pat) + 1, Len(text)) = pat
TextStartsWith(text, pat) ==
    Len(pat) <= Len(text) /\ SubSeq(text, 1, Len(pat)) = pat

\* The headers of a sequence of <<name, value>> pairs with this name,
\* compared without regard to case.
Named(headers, name) == SelectSeq(headers, LAMBDA hd : Lower(hd[1]) = name)

\* C21: the HTTP response for a Success envelope has the envelope's status,
\* every header of the envelope except Content-Length and Connection, one
\* Content-Length header with the byte length of the body and one
\* Content-Type header, with the envelope's Content-Type or text/plain.
C21_SuccessResponseHeaders ==
    (cpc = "done" /\ cMsg.kind = "success") =>
        /\ cGot.status = cMsg.status
        /\ cGot.body = cMsg.body
        /\ \A i \in 1..Len(cMsg.headers) :
              Lower(cMsg.headers[i][1]) \notin {"content-length", "connection"}
                 => \E j \in 1..Len(cGot.headers) : cGot.headers[j] = cMsg.headers[i]
        /\ Len(Named(cGot.headers, "content-length")) = 1
        /\ Named(cGot.headers, "content-length")[1][2] = ToString(Len(cMsg.body))
        /\ Len(Named(cGot.headers, "content-type")) = 1
        /\ Named(cGot.headers, "content-type")[1][2] =
              (IF Named(cMsg.headers, "content-type") = <<>> THEN "text/plain"
               ELSE Named(cMsg.headers, "content-type")[1][2])

\* C26: the serialized request is the request line, the header lines, an
\* empty line and the body: it begins with the request line and ends with
\* CRLF CRLF and the body, with or without a body.
C26_HeaderBlockTerminated ==
    (cpc = "done" /\ cMsg.kind = "build") =>
        /\ TextStartsWith(cWire, cMsg.method \o " " \o cMsg.path \o " HTTP/1.1\r\n")
        /\ TextEndsWith(cWire, "\r\n\r\n" \o cMsg.body)

\* C27: the serialized request has the header line Connection: close.
C27_ConnectionClose ==
    (cpc = "done" /\ cMsg.kind = "build") =>
        TextContains(cWire, "\r\nConnection: close\r\n")

\* host, and :port when the URL names a port other than 443.
Authority(url) ==
    url.host \o (IF url.port \in {"", "443"} THEN "" ELSE ":" \o url.port)

\* C28: the serialized request has the header line Host: <authority> of the
\* URL.
C28_HostNamesAuthority ==
    (cpc = "done" /\ cMsg.kind = "build") =>
        TextContains(cWire, "\r\nHost: " \o Authority(cMsg.url) \o "\r\n")

\* The bytes that follow the header block of the response read.
StreamOf(lines) ==
    IF LinesOf(lines, "body") = <<>> THEN "" ELSE LinesOf(lines, "body")[1].text

\* C29: the body returned for a response is its first Content-Length bytes
\* when that header is a non-negative integer; else, for Transfer-Encoding:
\* chunked, the chunks' payloads joined; else everything up to the end of
\* the stream.
C29_BodyRule ==
    (cpc = "done" /\ cMsg.kind = "read" /\ cMsg.lines[1].proto = "HTTP/1.1") =>
        LET headers == [i \in 1..Len(LinesOf(cMsg.lines, "header")) |->
                          << LinesOf(cMsg.lines, "header")[i].name,
                             LinesOf(cMsg.lines, "header")[i].value >>]
            stream == StreamOf(cMsg.lines)
            length == Named(headers, "content-length")
            coding == Named(headers, "transfer-encoding")
        IN
        IF length # <<>> /\ IsIntText(length[1][2]) /\ IntOf(length[1][2]) >= 0
        THEN IntOf(length[1][2]) <= Len(stream) =>
                /\ cGot.success
                /\ cGot.body = SubSeq(stream, 1, IntOf(length[1][2]))
        ELSE IF coding # <<>> /\ Lower(coding[1][2]) = "chunked"
        THEN cGot.success /\ cGot.body = cMsg.body
        ELSE cGot.success /\ cGot.body = stream

\* The request envelopes the proxy sent on control connection c.
EnvelopesSent(c) == {f.msg : f \in {g \in Range(ctlSent[c]) : g.msg.t = "req"}}

\* C22: the url of every request envelope the proxy sends is absolute: it
\* has a scheme and a host, also when the request-target was only a path.
C22_UrlIsAbsolute ==
    \A c \in CtlIds : \A envelope \in EnvelopesSent(c) :
        envelope.url.scheme # "" /\ envelope.url.host # ""

\* C24: a request whose body is not UTF-8 is answered 400, and no envelope is
\* sent for it.
C24_UndecodableBodyIs400 ==
    \A h \in Handlers :
        (ppc[h] = "done" /\ pReq[h].target = "proxy" /\ pReq[h].clen = "valid"
           /\ pReq[h].body = NotUtf8)
           => /\ httpOut[h][1].status = 400
              /\ LogOf(h, {"sent"}) = <<>>

\* The sidecar is inside process_request for a request of connection c,
\* waiting for the tunnel, the handshake or the upstream's response.
Processing(c) ==
    epc[c] \in {"tun_connect", "tun_read_len", "tun_read_payload", "tls_handshake",
                "http_read", "tun_wait_closed"}

\* C23: no network operation of the sidecar blocks for ever: a request it is
\* processing gets its response envelope written in the end, whatever the
\* upstream does.
C23_NoOperationBlocksForever ==
    \A c \in CtlIds : Processing(c) ~> (~Processing(c))

\* C30: when process_request has returned the envelope of a request for
\* which it opened a tunnel channel, that channel is closed on the sidecar's
\* side.
C30_TunnelClosedOnReturn ==
    \A c \in CtlIds : \A a \in Range(answers[c]) :
        a.tun # 0 => encPeer[a.tun] = "closed"

\* The control connections on which handler h sent its request.
SentOn(h) == {x.v : x \in Range(LogOf(h, {"sent"}))}

\* C25: no two handlers hold or use the same control connection, and a
\* control connection carries one request at most, so that no request is
\* sent on it before the response to another was read.
C25_NoMultiplexing ==
    /\ \A h, g \in Handlers :
          h # g => /\ pConn[h] # 0 => pConn[h] # pConn[g]
                   /\ SentOn(h) \cap SentOn(g) = {}
                   /\ Opened(h) \cap Opened(g) = {}
    /\ \A h \in Handlers : pConn[h] # 0 => pConn[h] \in Opened(h)
    /\ \A c \in CtlIds : Len(ctlSent[c]) <= 1

\* Two handlers wait for their responses at the same time, each on its own
\* connection.
C25_Witness ==
    \E h, g \in Handlers :
        /\ h # g
        /\ ppc[h] = "read_len" /\ ppc[g] = "read_len"
        /\ pConn[h] # pConn[g]
        /\ ctlSent[pConn[h]] # <<>> /\ ctlSent[pConn[g]] # <<>>


\* C31: every tunnel the relay establishes ends with both sockets closed:
\* when handle_tunnel_request has finished, the enclave-side connection and
\* the outbound target socket are both closed, also when the drain of the
\* connected reply fails after the target connection was opened.
C31_BothSocketsClosed ==
    \A t \in Tunnels :
        hpc[t] = "closed" => encW[t] # "open" /\ tgtW[t] # "open"


\* The requests that used tunnel connection t: the one being processed on
\* it and those that were answered after using it.
UsersOf(t) ==
    {eReq[c] : c \in {d \in CtlIds : eTun[d] = t}}
        \cup {a.req : a \in {b \in UNION {Range(answers[c]) : c \in CtlIds} : b.tun = t}}

\* What process_request writes on its tunnel connection for request r.
TunnelItemsOf(r) ==
    LET v == ValidateRequest(r) IN
    { Frame(OpenMsg(v.host, v.port)), ClientHello(v.host),
      WriteHttpRequest(_build_http_request(r.method, "/", r.headers, r.body, v.host)) }

\* The positions of process_request after create_tunnel opened the tunnel.
InTunnel(c) ==
    epc[c] \in {"tun_read_len", "tun_read_payload", "tls_handshake", "http_read",
                "tun_wait_closed"}

\* C32: a tunnel connection is never reused.  Every request that passes the
\* validation gets a tunnel connection of its own, also while other control
\* connections are served; the relay reads one tunnel-open message on a
\* tunnel connection, answers it once and connects to one target for it (to
\* none when it refuses the message or the target is unreachable), and
\* everything the sidecar sends on the connection belongs to one request.
C32_TunnelNeverReused ==
    /\ \A t \in Tunnels :
          /\ Cardinality(UsersOf(t)) <= 1
          /\ \A r \in UsersOf(t) : Range(encSent[t]) \subseteq TunnelItemsOf(r)
          /\ Len(FramesOf(encSent[t])) <= 1
          /\ Len(FramesOf(h2e[t])) <= 1
          /\ FramesOf(h2r[t]) = <<>>
          /\ Frame(ReplyConnected) \in Range(h2e[t]) => Established(t)
    /\ \A c \in CtlIds :
          /\ InTunnel(c) => eTun[c] # 0 /\ encPeer[eTun[c]] # "none"
          /\ \A d \in CtlIds : c # d /\ eTun[c] # 0 => eTun[c] # eTun[d]
          /\ \A i \in 1..Len(answers[c]) :
                ValidateRequest(answers[c][i].req).kind = "tunnel"
                    => answers[c][i].tun # 0

\* Two control connections are served at once, each request on its own
\* tunnel, both with their HTTP request sent.
C32_Witness ==
    \E c, d \in CtlIds :
        /\ c # d
        /\ epc[c] = "http_read" /\ epc[d] = "http_read"
        /\ eTun[c] # eTun[d]
        /\ \A t \in {eTun[c], eTun[d]} : Len(encSent[t]) = 3


\* C33: an error raised while the sidecar handles a request it read is
\* returned as a response envelope and the control connection stays open:
\* whenever the sidecar waits for the next request on an open connection it
\* has answered every request it read, and it closes a control connection
\* only at end of stream, on a reset or short read, or on a frame whose
\* payload cannot be decoded.
C33_ErrorsAreEnvelopes ==
    \A c \in Conns :
        /\ epc[c] \in {"read_len", "read_payload"} /\ ctlW[c] = "open"
              => Len(answers[c]) = Len(reqsRead[c])
        /\ epc[c] = "closed"
              => \/ ctlPeer[c] \in {"wr_closed", "aborted"}
                 \/ \E f \in Range(ctlSent[c]) : f.msg = BadJson


\* C34: the client of a proxied request opens its control connection
\* lazily, in an attempt's send_request and not before, and reopens it after
\* an I/O error: between two attempts the client holds no reader or writer,
\* and after an I/O error on a connection nothing more is written to it.
C34_LazyAndReopened ==
    \A h \in Handlers : (ppc[h] # "idle" /\ ~IsHealthCheck(h)) =>
        /\ \A i \in 1..Len(pLog[h]) :
              pLog[h][i].e = "connected"
                  => \E j \in 1..(i - 1) : pLog[h][j].e = "attempt"
        /\ ppc[h] \in {"handle", "loop", "sleep", "connect"} => pConn[h] = 0
        /\ \A i, j \in 1..Len(pLog[h]) :
              (i < j /\ pLog[h][i].e = "io_error"
                     /\ pLog[h][j].e \in {"sent", "stale_write"})
                 => pLog[h][j].v # pLog[h][i].v

====
